---- MODULE Spec2Model ----
(***************************************************************************)
(* Model of the package-age validation pipeline of                        *)
(* npm-minimum-age-validation: PackageLockDiffer, RegistryClient and       *)
(* PackageValidator (src/src/core/differ.ts), with the configuration       *)
(* loader, the GitHelper and the command-line program around them.         *)
(*                                                                         *)
(* Strings are sequences of symbols.  A symbol is one character, except    *)
(* "node_modules" and the root labels, which stand for those literal       *)
(* texts and are never split by any operation of the program.              *)
(*                                                                         *)
(* The JavaScript event loop is modelled at the granularity of its         *)
(* macrotasks: one action is one call of validate() up to its first        *)
(* await, one network event (response, timeout, transport error) together  *)
(* with every promise continuation it triggers, or one timer expiry.       *)
(***************************************************************************)
EXTENDS Integers, Sequences, FiniteSets, TLC

VARIABLES
    config,     \* ValidatorConfig the PackageValidator was constructed with
    patterns,   \* PackageValidator.trustedPatternsCache (pattern strings compiled)
    now,        \* the wall clock, Date.now(), in ms
    ticks,      \* number of clock advances so far
    cache,      \* RegistryClient.cache: key -> CacheEntry with expiry
    pc,         \* "idle" or "fetching": position of the validate() call
    calls,      \* number of validate() calls started
    env,        \* git / file-system state seen by the current validate() call
    modified,   \* modifiedPackages of the current validate() call
    toValidate, \* packagesToValidate of the current validate() call
    clientArgs, \* sequence of argument lists passed to getPackagesPublishDates by the current call
    uncachedAt, \* the uncached list of the current getPackagesPublishDates call
    reqs,       \* one record per uncached entry: state of its fetchPackageInfoWithRetry
    batch,      \* index of the batch being awaited
    netCount,   \* key -> number of network requests issued over the client's lifetime
    callCount,  \* key -> number of network requests issued during the current validate() call
    prevCache,  \* the live cache entries the current getPackagesPublishDates call found
    started,    \* Date.now() at performance.start('total-validation')
    returned,   \* the map the last getPackagesPublishDates call returned
    outcome,    \* how the last validate() call settled
    diffResult, \* what differ.getModifiedPackages() gave the current validate() call
    inv,        \* the getPackagesPublishDates invocations made on the client directly
    cli,        \* the command-line process: its options and its exit status
    lastCall    \* the last call of a library function: its input and its completion

vars == <<config, patterns, now, ticks, cache, pc, calls, env, modified,
          toValidate, clientArgs, uncachedAt, reqs, batch, netCount,
          callCount, prevCache, started, returned, outcome, diffResult, inv,
          cli, lastCall>>

----------------------------------------------------------------------------
(* Bounds of the model *)

MaxCalls == 2
MaxTicks == 1

----------------------------------------------------------------------------
(* Strings *)

RECURSIVE IndexFrom(_, _, _)
\* first position i >= from where sub occurs in s, 0 if none (String.indexOf)
IndexFrom(s, sub, from) ==
    IF from + Len(sub) - 1 > Len(s) THEN 0
    ELSE IF SubSeq(s, from, from + Len(sub) - 1) = sub THEN from
    ELSE IndexFrom(s, sub, from + 1)

IndexOf(s, sub) == IndexFrom(s, sub, 1)

Includes(s, sub) == IndexOf(s, sub) # 0

StartsWith(s, p) == Len(p) <= Len(s) /\ SubSeq(s, 1, Len(p)) = p

\* String.replace(sub, rep) with a string pattern: first occurrence only
ReplaceFirst(s, sub, rep) ==
    LET i == IndexOf(s, sub) IN
    IF i = 0 THEN s
    ELSE SubSeq(s, 1, i - 1) \o rep \o SubSeq(s, i + Len(sub), Len(s))

RECURSIVE Split(_, _)
\* String.split(sep) for a non-empty separator
Split(s, sep) ==
    LET i == IndexOf(s, sep) IN
    IF i = 0 THEN <<s>>
    ELSE <<SubSeq(s, 1, i - 1)>> \o Split(SubSeq(s, i + Len(sep), Len(s)), sep)

RECURSIVE Join(_, _)
\* Array.join(sep)
Join(parts, sep) ==
    IF Len(parts) = 0 THEN <<>>
    ELSE IF Len(parts) = 1 THEN parts[1]
    ELSE parts[1] \o sep \o Join(Tail(parts), sep)

RECURSIVE RemoveFirstOf(_, _)
\* String.replace(/[chars]/, ''): removes the first symbol that is in chars
RemoveFirstOf(s, chars) ==
    IF Len(s) = 0 THEN s
    ELSE IF Head(s) \in chars THEN Tail(s)
    ELSE <<Head(s)>> \o RemoveFirstOf(Tail(s), chars)

RECURSIVE ReplaceAll(_, _, _)
\* String.replace(/c/g, rep) for a one-symbol pattern c
ReplaceAll(s, c, rep) ==
    IF Len(s) = 0 THEN s
    ELSE (IF Head(s) = c THEN rep ELSE <<Head(s)>>) \o ReplaceAll(Tail(s), c, rep)

Range(s) == {s[i] : i \in DOMAIN s}

----------------------------------------------------------------------------
(* Regular expressions compiled from trusted patterns *)

\* source text of new RegExp('^' + pattern.replace(/\*/g, '.*') + '$'),
\* without the two anchors
CompilePattern(pattern) == ReplaceAll(pattern, "*", <<".", "*">>)

AtomMatches(atom, c) == atom = "." \/ atom = c

RECURSIVE RegexMatches(_, _)
\* the anchored regular expression re (atoms "." and literals, each
\* optionally followed by the quantifier "*") matches the whole of s
RegexMatches(re, s) ==
    IF Len(re) = 0 THEN Len(s) = 0
    ELSE IF Len(re) >= 2 /\ re[2] = "*"
    THEN \/ RegexMatches(SubSeq(re, 3, Len(re)), s)
         \/ /\ Len(s) > 0
            /\ AtomMatches(re[1], Head(s))
            /\ RegexMatches(re, Tail(s))
    ELSE /\ Len(s) > 0
         /\ AtomMatches(re[1], Head(s))
         /\ RegexMatches(Tail(re), Tail(s))

----------------------------------------------------------------------------
(* PackageLockDiffer *)

NodeModules == <<"node_modules", "/">>
NodeModulesSep == <<"/", "node_modules", "/">>

RootDependency == <<"root (dependency)">>
RootDevDependency == <<"root (devDependency)">>
Root == <<"root">>

extractPackageName(packagePath) ==
    LET cleanPath == ReplaceFirst(packagePath, NodeModules, <<>>)
        segments == Split(cleanPath, NodeModulesSep)
    IN  segments[Len(segments)]

inferParent(packagePath) ==
    LET segments == Split(packagePath, NodeModulesSep) IN
    IF Len(segments) > 2 THEN segments[Len(segments) - 1] ELSE Root

\* the entries of the root package's dependencies and devDependencies
extractDirectDependencies(lockData) ==
    [i \in 1..Len(lockData.root.dependencies) |->
        [name |-> lockData.root.dependencies[i][1],
         version |-> RemoveFirstOf(lockData.root.dependencies[i][2], {"^", "~"}),
         parent |-> RootDependency,
         isNew |-> TRUE]]
    \o
    [i \in 1..Len(lockData.root.devDependencies) |->
        [name |-> lockData.root.devDependencies[i][1],
         version |-> RemoveFirstOf(lockData.root.devDependencies[i][2], {"^", "~"}),
         parent |-> RootDevDependency,
         isNew |-> TRUE]]

RECURSIVE SetAll(_, _, _)
\* parentMap.set(name, value) for every name of names, in order
SetAll(map, names, value) ==
    IF Len(names) = 0 THEN map
    ELSE SetAll([n \in DOMAIN map \cup {Head(names)} |->
                    IF n = Head(names) THEN value ELSE map[n]],
                Tail(names), value)

\* a map in which a later edge replaces the parent already recorded
SetAlways(map, names, value) ==
    [n \in DOMAIN map \cup Range(names) |-> IF n \in Range(names) THEN value ELSE map[n]]

RECURSIVE SetAbsent(_, _, _)
\* if (!parentMap.has(depName)) parentMap.set(depName, parentName)
SetAbsent(map, names, value) ==
    IF Len(names) = 0 THEN map
    ELSE SetAbsent([n \in DOMAIN map \cup {Head(names)} |->
                       IF n \in DOMAIN map THEN map[n] ELSE value],
                   Tail(names), value)

RECURSIVE ScanPackages(_, _)
ScanPackages(map, packages) ==
    IF Len(packages) = 0 THEN map
    ELSE ScanPackages(SetAbsent(map, Head(packages).dependencies,
                                extractPackageName(Head(packages).path)),
                      Tail(packages))

buildParentMap(lockData) ==
    LET depNames == [i \in 1..Len(lockData.root.dependencies) |->
                        lockData.root.dependencies[i][1]]
        devNames == [i \in 1..Len(lockData.root.devDependencies) |->
                        lockData.root.devDependencies[i][1]]
        direct == SetAll(SetAll(<<>>, depNames, RootDependency),
                         devNames, RootDevDependency)
    IN  ScanPackages(direct, lockData.packages)

\* oldPackages[packagePath]: the entries of the committed snapshot at that path
OldEntries(oldLock, packagePath) ==
    {i \in 1..Len(oldLock.packages) : oldLock.packages[i].path = packagePath}

\* a comparison that only looks for paths absent from the committed snapshot
hasChangedWhenAbsent(oldLock, entry) ==
    OldEntries(oldLock, entry.path) = {}

hasChanged(oldLock, entry) ==
    \/ OldEntries(oldLock, entry.path) = {}
    \/ \E i \in OldEntries(oldLock, entry.path) :
          oldLock.packages[i].version # entry.version

computePackageDiff(oldLock, newLock) ==
    LET parentMap == buildParentMap(newLock)
        Changed(entry) == hasChanged(oldLock, entry) /\ entry.version # <<>>
        changedEntries == SelectSeq(newLock.packages, Changed)
    IN  [i \in 1..Len(changedEntries) |->
            LET packageName == extractPackageName(changedEntries[i].path) IN
            [name |-> packageName,
             version |-> changedEntries[i].version,
             parent |-> IF packageName \in DOMAIN parentMap
                        THEN parentMap[packageName]
                        ELSE inferParent(changedEntries[i].path),
             isNew |-> OldEntries(oldLock, changedEntries[i].path) = {}]]

\* file contents: unreadable (readFileSync throws), text that JSON.parse
\* rejects, or the text of a lockfile
Unreadable == [kind |-> "unreadable"]
Garbage == [kind |-> "garbage"]
JsonOf(lock) == [kind |-> "json", lock |-> lock]

Returns(modifiedPackages, isNewFile, changedFiles) ==
    [kind |-> "return", modified |-> modifiedPackages,
     isNewFile |-> isNewFile, changedFiles |-> changedFiles]

Throws(message) == [kind |-> "throw", error |-> message]

\* the message of the error readFileSync / JSON.parse throws on this content
ReadError(content) ==
    IF content.kind = "unreadable" THEN <<"ENOENT">> ELSE <<"SyntaxError">>

Parses(content) == content.kind = "json"

analyzeAllPackages(e) ==
    IF Parses(e.current)
    THEN Returns(extractDirectDependencies(e.current.lock), TRUE, 1)
    ELSE Returns(<<>>, FALSE, 0)

WrapDifferError(message) ==
    <<"Error analyzing package-lock.json changes: ">> \o message

\* the check for pending changes made before the check for a repository
getModifiedPackagesChangesFirst(e) ==
    IF ~e.hasPackageLockChanges THEN Returns(<<>>, FALSE, 0)
    ELSE IF ~e.isGitRepository THEN analyzeAllPackages(e)
    ELSE IF e.current.kind = "unreadable"
         THEN Throws(WrapDifferError(ReadError(e.current)))
    ELSE IF e.head.kind = "unreadable"
         THEN IF Parses(e.current)
              THEN Returns(extractDirectDependencies(e.current.lock), TRUE, 1)
              ELSE Throws(WrapDifferError(ReadError(e.current)))
    ELSE IF ~Parses(e.current)
         THEN Throws(WrapDifferError(ReadError(e.current)))
    ELSE IF ~Parses(e.head)
         THEN Throws(WrapDifferError(ReadError(e.head)))
    ELSE Returns(computePackageDiff(e.head.lock, e.current.lock), FALSE, 1)

getModifiedPackages(e) ==
    IF ~e.isGitRepository THEN analyzeAllPackages(e)
    ELSE IF ~e.hasPackageLockChanges THEN Returns(<<>>, FALSE, 0)
    ELSE IF e.current.kind = "unreadable"
         THEN Throws(WrapDifferError(ReadError(e.current)))
    ELSE IF e.head.kind = "unreadable"
         THEN IF Parses(e.current)
              THEN Returns(extractDirectDependencies(e.current.lock), TRUE, 1)
              ELSE Throws(WrapDifferError(ReadError(e.current)))
    ELSE IF ~Parses(e.current)
         THEN Throws(WrapDifferError(ReadError(e.current)))
    ELSE IF ~Parses(e.head)
         THEN Throws(WrapDifferError(ReadError(e.head)))
    ELSE Returns(computePackageDiff(e.head.lock, e.current.lock), FALSE, 1)

----------------------------------------------------------------------------
(* PackageFormatter *)

toKey(name, version) == name \o <<"@">> \o version

fromPackageInfo(pkg) == toKey(pkg.name, pkg.version)

----------------------------------------------------------------------------
(* The registry and the network, as seen by RegistryClient.fetchPackageInfo *)

HourMs == 1000 * 60 * 60

\* the instant at which the model starts
T0 == 28 * HourMs

Latest == <<"latest">>

\* a value of Date | null: <<>> is null, <<t>> the instant t
NoDate == <<>>
DateOf(t) == <<t>>

\* a timestamp text of the registry: parseable to an instant, or not
Iso(t) == [valid |-> TRUE, ms |-> t]
NotADate == [valid |-> FALSE, ms |-> 0]

\* new Date(text), null standing for an Invalid Date
ParseDate(text) == IF text.valid THEN DateOf(text.ms) ELSE NoDate

\* response bodies
NoBody == [json |-> FALSE, time |-> <<>>, latest |-> <<>>]
Metadata(time, latest) == [json |-> TRUE, time |-> time, latest |-> latest]

\* what the network delivers for a request: message is the message of the
\* Error object of an 'error' event
HttpResponse(status, body) ==
    [net |-> "response", status |-> status, body |-> body, message |-> <<>>]
Timeout == [net |-> "timeout", status |-> 0, body |-> NoBody, message |-> <<>>]
TransportError ==
    [net |-> "error", status |-> 0, body |-> NoBody, message |-> <<"ECONNRESET">>]
\* an Error whose message is the empty string (Node's AggregateError when
\* every address of the host refuses the connection)
TransportErrorNoMessage ==
    [net |-> "error", status |-> 0, body |-> NoBody, message |-> <<>>]

Resolve(date) == [kind |-> "resolve", date |-> date, error |-> <<>>]
Reject(message) == [kind |-> "reject", date |-> NoDate, error |-> message]

\* a 404 answer counted among the failed statuses
fetchPackageInfoRejecting404(resp, version) ==
    IF resp.net = "timeout" THEN Reject(<<"Request timeout">>)
    ELSE IF resp.net = "error" THEN Reject(resp.message)
    ELSE IF resp.status = 200
    THEN IF ~resp.body.json THEN Reject(<<"JSON parsing failed">>)
         ELSE IF version \in DOMAIN resp.body.time
              THEN Resolve(ParseDate(resp.body.time[version]))
         ELSE IF version = Latest /\ resp.body.latest # <<>>
              THEN IF resp.body.latest \in DOMAIN resp.body.time
                   THEN Resolve(ParseDate(resp.body.time[resp.body.latest]))
                   ELSE Resolve(NoDate)
         ELSE Resolve(NoDate)
    ELSE Reject(<<"HTTP error">>)

\* the settlement of the promise of fetchPackageInfo(packageName, version)
\* when the network answers with resp
fetchPackageInfo(resp, version) ==
    IF resp.net = "timeout" THEN Reject(<<"Request timeout">>)
    ELSE IF resp.net = "error" THEN Reject(resp.message)
    ELSE IF resp.status = 200
    THEN IF ~resp.body.json THEN Reject(<<"JSON parsing failed">>)
         ELSE IF version \in DOMAIN resp.body.time
              THEN Resolve(ParseDate(resp.body.time[version]))
         ELSE IF version = Latest /\ resp.body.latest # <<>>
              THEN IF resp.body.latest \in DOMAIN resp.body.time
                   THEN Resolve(ParseDate(resp.body.time[resp.body.latest]))
                   ELSE Resolve(NoDate)
         ELSE Resolve(NoDate)
    ELSE IF resp.status = 404 THEN Resolve(NoDate)
    ELSE Reject(<<"HTTP error">>)

----------------------------------------------------------------------------
(* RegistryClient *)

FilePrefix == <<"file:">>
DotSlash == <<".", "/">>
LibAt == <<"lib/", "@">>

IsLocalPackage(pkg) ==
    StartsWith(pkg, FilePrefix) \/ StartsWith(pkg, DotSlash) \/ Includes(pkg, LibAt)

NotLocalPackage(pkg) == ~IsLocalPackage(pkg)

\* every package string is kept
npmPackagesUnfiltered(packages) == packages

npmPackagesOf(packages) == SelectSeq(packages, NotLocalPackage)

\* NodeCache: an entry set at time t with stdTTL s > 0 seconds expires
\* when Date.now() exceeds t + 1000 s; stdTTL 0 never expires
stdTTL(cfg) == cfg.registry.cacheTtlMinutes * 60

ExpiryAt(cfg, t) == IF stdTTL(cfg) = 0 THEN 0 ELSE t + stdTTL(cfg) * 1000

\* a cache whose get() does not look at the expiry time
IsLiveWithoutCheck(entry, t) == TRUE

IsLive(entry, t) == entry.expires = 0 \/ entry.expires >= t

\* this.cache.get(pkg) is defined
CacheHas(c, pkg, t) == pkg \in DOMAIN c /\ IsLive(c[pkg], t)

CacheEntry(date, t, error, expires) ==
    [publishDate |-> date, timestamp |-> t, error |-> error, expires |-> expires]

CacheSet(c, key, entry) ==
    [k \in DOMAIN c \cup {key} |-> IF k = key THEN entry ELSE c[k]]

\* cacheEntry && cacheEntry.publishDate
HasPublishDate(c, pkg, t) == CacheHas(c, pkg, t) /\ c[pkg].publishDate # NoDate

\* falls back to the fetch time when the entry holds no date
getCachedPackagesAnyEntry(c, packages, t) ==
    [pkg \in {q \in Range(packages) : CacheHas(c, q, t)} |->
        IF c[pkg].publishDate # NoDate THEN c[pkg].publishDate[1] ELSE c[pkg].timestamp]

getCachedPackages(c, packages, t) ==
    [pkg \in {q \in Range(packages) : HasPublishDate(c, q, t)} |->
        c[pkg].publishDate[1]]

uncachedIgnoringCache(c, npmPackages, t) == npmPackages

\* npmPackages.filter((pkg) => !cached.has(pkg))
uncachedOf(c, npmPackages, t) ==
    LET cached == getCachedPackages(c, npmPackages, t)
        Missing(pkg) == pkg \notin DOMAIN cached
    IN  SelectSeq(npmPackages, Missing)

\* the { name, version } parsed from a package string
ParsePackage(pkg) ==
    LET parts == Split(pkg, <<"@">>) IN
    IF Len(parts) >= 2
    THEN [name |-> Join(SubSeq(parts, 1, Len(parts) - 1), <<"@">>),
          version |-> parts[Len(parts)]]
    ELSE [name |-> pkg, version |-> Latest]

\* the for loop of createBatches never ends: i starts at 0 < items.length and
\* i += batchSize never brings it to items.length
createBatchesLoopsForever(items, batchSize) == Len(items) > 0 /\ batchSize <= 0

RECURSIVE createBatches(_, _)
\* for batchSize >= 1
createBatches(items, batchSize) ==
    IF Len(items) = 0 THEN <<>>
    ELSE IF Len(items) <= batchSize THEN <<items>>
    ELSE <<SubSeq(items, 1, batchSize)>>
         \o createBatches(SubSeq(items, batchSize + 1, Len(items)), batchSize)

\* the exponential delay without its cap
BackoffDelayUncapped(attempt) == 1000 * 2 ^ (attempt - 1)

\* Math.min(1000 * Math.pow(2, attempt - 1), 5000)
BackoffDelay(attempt) ==
    LET d == 1000 * 2 ^ (attempt - 1) IN IF d < 5000 THEN d ELSE 5000

\* one fetchPackageInfoWithRetry(name, version) of fetchUncachedPackages:
\* st is "pending" (its batch is not started), "out" (a request is
\* outstanding), "sleep" (waiting for the backoff timer) or "done"
\* answers lists what the network delivered for each attempt, settled how
\* each attempt's fetchPackageInfo promise settled and slept the delays
\* passed to sleep(), all in order
Request(pkg, st, attempt) ==
    [name |-> pkg.name, version |-> pkg.version, st |-> st, attempt |-> attempt,
     date |-> NoDate, error |-> <<>>, delay |-> 0,
     answers |-> <<>>, settled |-> <<>>, slept |-> <<>>]

Indices(n) == [i \in 1..n |-> i]

\* the positions of the uncached list that form the batches
batchesOf(n, cfg) == createBatches(Indices(n), cfg.registry.concurrency)

\* the for loop of fetchPackageInfoWithRetry runs at least one attempt
AttemptsAllowed(cfg) == 1 <= cfg.registry.retries

\* one attempt more than configured
RetryAfterInclusive(attempt, cfg) == attempt <= cfg.registry.retries

\* attempt < this.config.retries: another attempt follows a failed one
RetryAfter(attempt, cfg) == attempt < cfg.registry.retries

\* fetchPackageInfoWithRetry after the network answered its request
AfterResponse(r, resp, cfg) ==
    LET s == fetchPackageInfo(resp, r.version)
        q == [r EXCEPT !.answers = Append(@, resp), !.settled = Append(@, s)]
    IN
    IF s.kind = "resolve"
    THEN [q EXCEPT !.st = "done", !.date = s.date]
    ELSE IF RetryAfter(r.attempt, cfg)
    THEN [q EXCEPT !.st = "sleep", !.delay = BackoffDelay(r.attempt),
                   !.slept = Append(@, BackoffDelay(r.attempt))]
    ELSE [q EXCEPT !.st = "done", !.error = s.error]

\* the requests issued when batch b starts
StartBatch(rs, b) ==
    [i \in DOMAIN rs |->
        IF i \in Range(b) THEN [rs[i] EXCEPT !.st = "out", !.attempt = 1] ELSE rs[i]]

RECURSIVE WriteResults(_, _, _, _, _)
\* results.forEach: this.cache.set(key, cacheEntry) in batch order
WriteResults(c, rs, b, cfg, t) ==
    IF Len(b) = 0 THEN c
    ELSE LET r == rs[Head(b)]
             key == toKey(r.name, r.version)
         IN  WriteResults(CacheSet(c, key, CacheEntry(r.date, t, r.error, ExpiryAt(cfg, t))),
                          rs, Tail(b), cfg, t)

RECURSIVE CountUp(_, _)
\* counts one network request for every key of keys
CountUp(count, keys) ==
    IF Len(keys) = 0 THEN count
    ELSE CountUp([k \in DOMAIN count \cup {Head(keys)} |->
                    IF k = Head(keys)
                    THEN (IF k \in DOMAIN count THEN count[k] ELSE 0) + 1
                    ELSE count[k]],
                 Tail(keys))

KeysOf(rs, b) == [j \in 1..Len(b) |-> toKey(rs[b[j]].name, rs[b[j]].version)]

----------------------------------------------------------------------------
(* PackageValidator *)

\* a constructor that compiles every trusted pattern, exact names included
trustedPatternsCacheOfAll(cfg) ==
    [p \in Range(cfg.trustedPackages) |-> CompilePattern(p)]

\* the map built by the constructor: one compiled expression per wildcard pattern
trustedPatternsCache(cfg) ==
    [p \in {q \in Range(cfg.trustedPackages) : Includes(q, <<"*">>)} |->
        CompilePattern(p)]

PatternMatches(compiled, pattern, packageName) ==
    IF Includes(pattern, <<"*">>)
    THEN pattern \in DOMAIN compiled /\ RegexMatches(compiled[pattern], packageName)
    ELSE packageName = pattern

isTrustedExactOnly(cfg, compiled, packageName) ==
    \E i \in DOMAIN cfg.trustedPackages : packageName = cfg.trustedPackages[i]

isTrustedPackage(cfg, compiled, packageName) ==
    \E i \in DOMAIN cfg.trustedPackages :
        PatternMatches(compiled, cfg.trustedPackages[i], packageName)

packagesToValidateUnfiltered(cfg, compiled, modifiedPackages) == modifiedPackages

packagesToValidateOf(cfg, compiled, modifiedPackages) ==
    LET NotTrusted(pkg) == ~isTrustedPackage(cfg, compiled, pkg.name)
    IN  SelectSeq(modifiedPackages, NotTrusted)

packageStringsOf(packages) == [i \in DOMAIN packages |-> fromPackageInfo(packages[i])]

\* now.getTime() - publishDate.getTime(): the age in ms
AgeMs(t, publishDate) == t - publishDate

isOldEnoughStrictly(ageMs, minimumAgeHours) == ageMs > minimumAgeHours * HourMs

\* ageInHours >= minimumAgeHours, with ageInHours = ageMs / (1000 * 60 * 60)
isOldEnough(ageMs, minimumAgeHours) == ageMs >= minimumAgeHours * HourMs

\* parseFloat(ageInHours.toFixed(1)), in tenths of an hour (ages that are
\* an odd multiple of a twentieth of an hour are not used as inputs)
RoundedTenths(ageMs) ==
    IF ageMs >= 0 THEN (ageMs * 10 + HourMs \div 2) \div HourMs
    ELSE 0 - (((0 - ageMs) * 10 + HourMs \div 2) \div HourMs)

\* the age cut to one decimal place instead of rounded
ViolationTruncated(pkg, publishDate, ageMs) ==
    [name |-> pkg.name, version |-> pkg.version, parent |-> pkg.parent,
     publishDate |-> publishDate, ageInHours |-> (ageMs * 10) \div HourMs]

Violation(pkg, publishDate, ageMs) ==
    [name |-> pkg.name, version |-> pkg.version, parent |-> pkg.parent,
     publishDate |-> publishDate, ageInHours |-> RoundedTenths(ageMs)]

validatePackageAges(cfg, packages, publishDates, t) ==
    LET Violates(pkg) ==
            /\ fromPackageInfo(pkg) \in DOMAIN publishDates
            /\ ~isOldEnough(AgeMs(t, publishDates[fromPackageInfo(pkg)]),
                            cfg.minimumAgeHours)
        young == SelectSeq(packages, Violates)
    IN  [i \in DOMAIN young |->
            Violation(young[i], publishDates[fromPackageInfo(young[i])],
                      AgeMs(t, publishDates[fromPackageInfo(young[i])]))]

IsNew(pkg) == pkg.isNew
IsNotNew(pkg) == ~pkg.isNew

createResult(success, violations, allPackages, executionTime) ==
    [kind |-> "resolved",
     success |-> success,
     violations |-> violations,
     summary |-> [totalPackages |-> Len(allPackages),
                  newPackages |-> Len(SelectSeq(allPackages, IsNew)),
                  modifiedPackages |-> Len(SelectSeq(allPackages, IsNotNew)),
                  violations |-> Len(violations),
                  executionTimeMs |-> executionTime],
     error |-> <<>>]

\* the catch block returns a result instead of rethrowing
RejectedSwallowed(error) ==
    [kind |-> "resolved", success |-> TRUE, violations |-> <<>>,
     summary |-> [totalPackages |-> 0, newPackages |-> 0, modifiedPackages |-> 0,
                  violations |-> 0, executionTimeMs |-> 0],
     error |-> error]

Rejected(error) ==
    [kind |-> "rejected", success |-> FALSE, violations |-> <<>>,
     summary |-> [totalPackages |-> 0, newPackages |-> 0, modifiedPackages |-> 0,
                  violations |-> 0, executionTimeMs |-> 0],
     error |-> error]

NotCalled == [Rejected(<<>>) EXCEPT !.kind = "none"]

resultAlwaysSuccess(cfg, packages, allPackages, publishDates, t, executionTime) ==
    createResult(TRUE, validatePackageAges(cfg, packages, publishDates, t),
                 allPackages, executionTime)

\* the summary counts only the packages that were fetched
resultOfFetchedOnly(cfg, packages, allPackages, publishDates, t, executionTime) ==
    LET violations == validatePackageAges(cfg, packages, publishDates, t) IN
    IF Len(violations) > 0
    THEN createResult(FALSE, violations, packages, executionTime)
    ELSE createResult(TRUE, violations, packages, executionTime)

\* steps 4 and 5 of validate(): the result built from the fetched dates
resultOf(cfg, packages, allPackages, publishDates, t, executionTime) ==
    LET violations == validatePackageAges(cfg, packages, publishDates, t) IN
    IF Len(violations) > 0
    THEN createResult(FALSE, violations, allPackages, executionTime)
    ELSE createResult(TRUE, violations, allPackages, executionTime)

\* error.message of the null thrown by fetchPackageInfoWithRetry when its
\* loop runs no attempt
NullMessageError == <<"TypeError: Cannot read properties of null">>

----------------------------------------------------------------------------
(* The inputs of the model: configurations, lockfiles, registry contents *)

A == <<"a">>
B == <<"b">>
C == <<"c">>
D == <<"d">>
N == <<"n">>
TX == <<"@", "t", "/", "x">>
TS == <<"t", "s">>

V1 == <<"1">>
V2 == <<"2">>
V5 == <<"5">>

PathOf(name) == NodeModules \o name
NestedPath(outer, name) == NodeModules \o outer \o NodeModulesSep \o name

Entry(path, version, dependencies) ==
    [path |-> path, version |-> version, dependencies |-> dependencies]

RootOf(dependencies, devDependencies) ==
    [dependencies |-> dependencies, devDependencies |-> devDependencies]

\* the committed lockfile
LockHead ==
    [root |-> RootOf(<< <<A, <<"^", "1">> >> >>, <<>>),
     packages |-> << Entry(PathOf(A), V1, <<B>>),
                     Entry(PathOf(B), V1, <<>>) >>]

\* a working-tree lockfile with changed, added, nested and trusted packages
LockCur ==
    [root |-> RootOf(<< <<A, <<"^", "1">> >>, <<N, <<"~", "1">> >> >>,
                     << <<TS, <<"^", "5">> >> >>),
     packages |-> << Entry(PathOf(A), V1, <<B, C>>),
                     Entry(PathOf(B), V2, <<>>),
                     Entry(PathOf(C), V1, <<>>),
                     Entry(PathOf(TX), V2, <<>>),
                     Entry(NestedPath(TX, B), V2, <<>>) >>]

\* a working-tree lockfile in which only trusted packages were added
LockTrusted ==
    [root |-> RootOf(<< <<TX, <<"^", "2">> >> >>, << <<TS, <<"~", "5">> >> >>),
     packages |-> << Entry(PathOf(A), V1, <<B>>),
                     Entry(PathOf(B), V1, <<>>),
                     Entry(PathOf(TX), V2, <<>>),
                     Entry(PathOf(TS), V5, <<>>) >>]

\* a working-tree lockfile that adds one package with a known publish date
LockDated ==
    [root |-> RootOf(<< <<A, <<"^", "1">> >> >>, <<>>),
     packages |-> << Entry(PathOf(A), V1, <<B>>),
                     Entry(PathOf(B), V1, <<>>),
                     Entry(PathOf(D), V2, <<>>) >>]

\* a new lockfile whose root declares a compound range, "1 || ^2"
LockRanges ==
    [root |-> RootOf(<< <<TS, <<"1", " ", "|", "|", " ", "^", "2">> >> >>,
                     << <<TX, <<"~", "2">> >> >>),
     packages |-> << Entry(PathOf(TS), V2, <<B>>),
                     Entry(PathOf(TX), V2, <<>>),
                     Entry(PathOf(B), V1, <<>>) >>]

\* a working-tree lockfile that drops b, links a workspace package (an entry
\* with "link": true and no version) and adds c
LockLinked ==
    [root |-> RootOf(<< <<A, <<"^", "1">> >> >>, <<>>),
     packages |-> << Entry(PathOf(A), V1, <<>>),
                     Entry(PathOf(<<"w">>), <<>>, <<>>),
                     Entry(PathOf(C), V1, <<>>) >>]

Env(isGit, changes, current, head) ==
    [isGitRepository |-> isGit, hasPackageLockChanges |-> changes,
     current |-> current, head |-> head]

\* the repository states a validate() call can meet: outside git, unchanged,
\* a new lockfile, a modified lockfile, each with readable and unreadable files
Envs ==
    {Env(FALSE, FALSE, c, Unreadable) : c \in {Unreadable, Garbage, JsonOf(LockCur)}}
    \cup {Env(TRUE, FALSE, c, JsonOf(LockHead)) : c \in {Unreadable, JsonOf(LockHead)}}
    \cup {Env(TRUE, FALSE, Unreadable, Unreadable)}
    \cup {Env(TRUE, TRUE, c, Unreadable) :
            c \in {Unreadable, Garbage, JsonOf(LockTrusted), JsonOf(LockRanges)}}
    \cup {Env(TRUE, TRUE, c, JsonOf(LockHead)) :
            c \in {Garbage, JsonOf(LockCur), JsonOf(LockTrusted), JsonOf(LockDated),
                   JsonOf(LockLinked), JsonOf(LockHead)}}
    \cup {Env(TRUE, TRUE, JsonOf(LockCur), Garbage)}

NoEnv == Env(FALSE, FALSE, Unreadable, Unreadable)

TrustedPackages == << <<"@", "t", "/", "*">>, TS >>

MinimumAges == {24}
Concurrencies == {1, 2}
RetryCounts == {0, 1, 2}
CacheTtls == {60}

Configs ==
    {[minimumAgeHours |-> m, trustedPackages |-> TrustedPackages,
      registry |-> [concurrency |-> c, retries |-> r, cacheTtlMinutes |-> ttl]] :
        m \in MinimumAges, c \in Concurrencies, r \in RetryCounts, ttl \in CacheTtls}

\* the registry's metadata document of each published package
RegistryBody(name) ==
    CASE name = A  -> Metadata(V1 :> Iso(T0 - 24 * HourMs + 1), V1)
      [] name = B  -> Metadata(V1 :> Iso(T0 - 26 * HourMs) @@ V2 :> Iso(T0 - HourMs), V2)
      [] name = C  -> Metadata(V1 :> NotADate, V1)
      [] name = D  -> Metadata(V2 :> Iso(T0 - 26 * HourMs), V2)
      [] name = TX -> Metadata(V2 :> Iso(T0 - HourMs), V2)
      [] name = TS -> Metadata(V5 :> Iso(T0), V5)

Published == {A, B, C, D, TX, TS}

\* the faults the network produces for the requests of each package
Faults(name) ==
    CASE name = A -> {Timeout}
      [] name = B -> {HttpResponse(500, NoBody)}
      [] name = C -> {HttpResponse(200, NoBody)}
      [] name = D -> {TransportError}
      [] name = N -> {TransportErrorNoMessage}
      [] OTHER -> {Timeout}

\* what the network can deliver for a request of GET {url}/{name}
Responses(name) ==
    {IF name \in Published THEN HttpResponse(200, RegistryBody(name))
                           ELSE HttpResponse(404, NoBody)}
    \cup Faults(name)

TickSteps == {1, HourMs, HourMs + 1}

----------------------------------------------------------------------------
(* Configuration: createDefaultConfig, loadConfig, mergeConfig and the      *)
(* merge of validatePackages.  An object is a function from its keys.       *)

EmptyObject == [k \in {} |-> 0]

DefaultTrustedPackages ==
    << <<"@", "a", "n", "g", "u", "l", "a", "r", "/", "*">>,
       <<"@", "t", "y", "p", "e", "s", "/", "*">>,
       <<"t", "y", "p", "e", "s", "c", "r", "i", "p", "t">>,
       <<"r", "x", "j", "s">>,
       <<"z", "o", "n", "e", ".", "j", "s">>,
       <<"@", "m", "i", "c", "r", "o", "s", "o", "f", "t", "/", "*">>,
       <<"e", "s", "l", "i", "n", "t", "*">>,
       <<"p", "r", "e", "t", "t", "i", "e", "r">>,
       <<"j", "e", "s", "t">>,
       <<"h", "u", "s", "k", "y">> >>

createDefaultConfig ==
    [minimumAgeHours |-> 24,
     trustedPackages |-> DefaultTrustedPackages,
     registry |-> [url |-> "https://registry.npmjs.org",
                   concurrency |-> 10,
                   timeout |-> 8000,
                   retries |-> 3,
                   cacheEnabled |-> TRUE,
                   cacheTtlMinutes |-> 60],
     security |-> [enforceHttps |-> TRUE,
                   allowPrivatePackages |-> TRUE,
                   blocklistPatterns |-> <<>>,
                   requireSignedPackages |-> FALSE],
     output |-> [format |-> "console",
                 verbose |-> FALSE,
                 colors |-> TRUE,
                 logLevel |-> "info"]]

\* { ...a, ...b }
Spread(a, b) ==
    [k \in DOMAIN a \cup DOMAIN b |-> IF k \in DOMAIN b THEN b[k] ELSE a[k]]

\* object[key] as the operand of a spread: an undefined one adds nothing
Property(object, key) ==
    IF key \in DOMAIN object THEN object[key] ELSE EmptyObject

\* a merge that replaces every top-level value the user gives
mergeConfigShallow(defaultConfig, userConfig) == Spread(defaultConfig, userConfig)

mergeConfig(defaultConfig, userConfig) ==
    LET top == Spread(defaultConfig, userConfig) IN
    [k \in DOMAIN top \cup {"registry", "security", "output"} |->
        IF k \in {"registry", "security", "output"}
        THEN Spread(defaultConfig[k], Property(userConfig, k))
        ELSE top[k]]

\* the text of a configuration file that JSON.parse accepts
ConfigJson(userConfig) == [kind |-> "json", value |-> userConfig]

ConfigPath == <<"c", ".", "j", "s", "o", "n">>

Completed(value) == [kind |-> "return", value |-> value]

FailedToLoadConfig == <<"Failed to load config">>

loadConfig(content) ==
    IF content.kind = "json"
    THEN Completed(mergeConfig(createDefaultConfig, content.value))
    ELSE Throws(FailedToLoadConfig \o <<" from ">> \o ConfigPath \o <<": ">>
                    \o ReadError(content))

\* const fullConfig = { ...createDefaultConfig(), ...config }
fullConfigOf(partialConfig) == Spread(createDefaultConfig, partialConfig)

\* the object with the given keys whose values are present
ObjectOf(fields) ==
    [k \in {q \in DOMAIN fields : fields[q] # {}} |-> CHOOSE x \in fields[k] : TRUE]

\* what a user writes in a configuration file or passes to validatePackages:
\* any subset of the top-level keys, sections given in part or in full
UserRegistries ==
    { {}, {EmptyObject}, {[concurrency |-> 5]}, {[timeout |-> 10000]},
      {[retries |-> 1, cacheEnabled |-> FALSE]} }

UserSecurities == { {}, {[enforceHttps |-> FALSE]} }

UserOutputs == { {}, {[format |-> "json", verbose |-> TRUE]} }

UserConfigs ==
    {ObjectOf([minimumAgeHours |-> m, trustedPackages |-> t, registry |-> r,
               security |-> s, output |-> o]) :
        m \in { {}, {72} }, t \in { {}, {<<TS>>} }, r \in UserRegistries,
        s \in UserSecurities, o \in UserOutputs}

ConfigFiles == {Unreadable, Garbage} \cup {ConfigJson(u) : u \in UserConfigs}

NoCall == [op |-> "none", input |-> <<>>, result |-> Completed(<<>>)]

Call(op, input, result) == [op |-> op, input |-> input, result |-> result]

----------------------------------------------------------------------------
(* GitHelper *)

\* what execSync does with a git command: it throws, or returns the output
Fails == [kind |-> "fails"]
Output(text) == [kind |-> "output", text |-> text]

PackageLockJson == <<"package-lock.json">>
Unknown == <<"unknown">>
Whitespace == {" ", "\n"}

RECURSIVE TrimStart(_)
TrimStart(s) ==
    IF Len(s) > 0 /\ Head(s) \in Whitespace THEN TrimStart(Tail(s)) ELSE s

RECURSIVE TrimEnd(_)
TrimEnd(s) ==
    IF Len(s) > 0 /\ s[Len(s)] \in Whitespace
    THEN TrimEnd(SubSeq(s, 1, Len(s) - 1)) ELSE s

\* String.trim()
Trim(s) == TrimEnd(TrimStart(s))

\* a helper that lets the error of execSync escape
executeCommandUncaught(run) ==
    IF run.kind = "fails" THEN Throws(<<"Command failed">>) ELSE Completed(run.text)

executeCommand(run) ==
    IF run.kind = "fails" THEN Completed(<<>>) ELSE Completed(run.text)

\* the operations below have no try block of their own: an exception of
\* executeCommand would leave them unchanged

hasPackageLockChanges(run) ==
    LET status == executeCommand(run) IN
    IF status.kind = "throw" THEN status
    ELSE Completed(Includes(status.value, PackageLockJson))

\* null is the empty option, a string s is <<s>>
getPackageLockFromHead(run) ==
    LET result == executeCommand(run) IN
    IF result.kind = "throw" THEN result
    ELSE Completed(IF result.value # <<>> THEN <<result.value>> ELSE <<>>)

getCurrentBranch(run) ==
    LET result == executeCommand(run) IN
    IF result.kind = "throw" THEN result
    ELSE Completed(IF Trim(result.value) # <<>> THEN Trim(result.value) ELSE Unknown)

getLastCommitHash(run) ==
    LET result == executeCommand(run) IN
    IF result.kind = "throw" THEN result
    ELSE Completed(IF Trim(result.value) # <<>> THEN Trim(result.value) ELSE Unknown)

isGitRepository(run) ==
    LET result == executeCommand(run) IN
    IF result.kind = "throw" THEN result
    ELSE Completed(Len(result.value) > 0)

\* the outputs of the git commands of the helper
GitOutputs ==
    { <<>>, <<" ", "\n">>, <<".", "g", "i", "t", "\n">>, <<"m", "a", "i", "n", "\n">>,
      <<" ", "M", " ">> \o PackageLockJson \o <<"\n">>,
      <<"{", "}">> }

GitRuns == {Fails} \cup {Output(t) : t \in GitOutputs}

----------------------------------------------------------------------------
(* The command-line program *)

CliOptions(configFile, dryRun) == [config |-> configFile, dryRun |-> dryRun]

Process(options, exit) == [options |-> options, exit |-> exit]

Digits == <<"0", "1", "2", "3", "4", "5", "6", "7", "8", "9">>

DigitOf(c) == (CHOOSE i \in DOMAIN Digits : Digits[i] = c) - 1

\* parseInt(text, 10) of a text that begins with a digit: the number written
\* by its leading digits
RECURSIVE parseIntFrom(_, _)
parseIntFrom(text, value) ==
    IF text = <<>> THEN value
    ELSE IF Head(text) \notin Range(Digits) THEN value
    ELSE parseIntFrom(Tail(text), value * 10 + DigitOf(Head(text)))

parseInt(text) == parseIntFrom(text, 0)

\* .option('-a, --min-age <hours>', ..., '24')
DefaultMinAge == <<"2", "4">>

\* .option('--concurrency <num>', ..., '10')
DefaultConcurrency == <<"1", "0">>

\* what is written on the command line; an option not written is <<>>
Argv(configFile, dryRun, minAge, concurrency) ==
    [config |-> configFile, dryRun |-> dryRun, minAge |-> minAge,
     concurrency |-> concurrency]

\* program.opts(): an option declared with a default value holds that
\* value when it is not written on the command line
ProgramOpts(argv) ==
    [config |-> argv.config,
     dryRun |-> argv.dryRun,
     minAge |-> IF argv.minAge = <<>> THEN <<DefaultMinAge>> ELSE argv.minAge,
     concurrency |-> IF argv.concurrency = <<>> THEN <<DefaultConcurrency>>
                     ELSE argv.concurrency]

Command(argv, exit) == [argv |-> argv, options |-> ProgramOpts(argv), exit |-> exit]

\* a string option is truthy when it is present and not empty
Given(option) == IF option = <<>> THEN FALSE ELSE option[1] # <<>>

\* the configuration runValidation hands to validatePackages: the loaded or
\* the default one, then the overrides of --min-age and --concurrency
configOfRun(options) ==
    LET loaded == IF options.config # <<>> THEN loadConfig(options.config[1])
                  ELSE Completed(createDefaultConfig)
    IN  IF loaded.kind # "return" THEN loaded
        ELSE LET aged == IF Given(options.minAge)
                         THEN [loaded.value EXCEPT
                                  !.minimumAgeHours = parseInt(options.minAge[1])]
                         ELSE loaded.value
             IN  Completed(IF Given(options.concurrency)
                           THEN [aged EXCEPT !.registry.concurrency =
                                                 parseInt(options.concurrency[1])]
                           ELSE aged)

\* no command-line process: the library is used directly
NoCli == Process(CliOptions(<<>>, FALSE), <<>>)

\* an exit status that forgets --dry-run
ExitStatusWithoutDryRun(settled, dryRun) ==
    IF settled.kind = "rejected" THEN 1
    ELSE IF settled.success THEN 0 ELSE 1

\* the argument of process.exit once validatePackages has settled
ExitStatus(settled, dryRun) ==
    IF settled.kind = "rejected" THEN 1
    ELSE IF dryRun THEN 0
    ELSE IF settled.success THEN 0 ELSE 1

----------------------------------------------------------------------------
(* The state machine *)

\* a PackageValidator and its RegistryClient after construction
Constructed(configs) ==
    /\ config \in configs
    /\ patterns = trustedPatternsCache(config)
    /\ now = T0
    /\ ticks = 0
    /\ cache = <<>>
    /\ pc = "idle"
    /\ calls = 0
    /\ env = NoEnv
    /\ modified = <<>>
    /\ toValidate = <<>>
    /\ clientArgs = <<>>
    /\ uncachedAt = <<>>
    /\ reqs = <<>>
    /\ batch = 0
    /\ netCount = <<>>
    /\ callCount = <<>>
    /\ prevCache = <<>>
    /\ started = T0
    /\ returned = <<>>
    /\ outcome = NotCalled
    /\ diffResult = Returns(<<>>, FALSE, 0)
    /\ inv = <<>>

Init ==
    /\ Constructed(Configs)
    /\ cli = NoCli
    /\ lastCall = NoCall

\* the part of the cache that this.cache.get can see at time t
LiveCache(c, t) == [k \in {q \in DOMAIN c : IsLive(c[q], t)} |-> c[k]]

\* validate() is called: performance.start, the Differ runs
Enter(e) ==
    /\ pc = "idle"
    /\ calls < MaxCalls
    /\ calls' = calls + 1
    /\ env' = e
    /\ started' = now
    /\ diffResult' = getModifiedPackages(e)
    /\ UNCHANGED <<config, patterns, now, ticks, inv, cli, lastCall>>

NoFetch ==
    /\ pc' = "idle"
    /\ uncachedAt' = <<>>
    /\ reqs' = <<>>
    /\ batch' = 0
    /\ callCount' = <<>>
    /\ UNCHANGED <<cache, netCount>>

\* the Differ throws: validate() logs and rethrows
ValidateDifferThrows(e) ==
    /\ Enter(e)
    /\ getModifiedPackages(e).kind = "throw"
    /\ modified' = <<>>
    /\ toValidate' = <<>>
    /\ clientArgs' = <<>>
    /\ prevCache' = <<>>
    /\ outcome' = Rejected(getModifiedPackages(e).error)
    /\ NoFetch
    /\ UNCHANGED returned

\* modifiedPackages.length === 0
ValidateNothing(e) ==
    /\ Enter(e)
    /\ getModifiedPackages(e).kind = "return"
    /\ Len(getModifiedPackages(e).modified) = 0
    /\ modified' = <<>>
    /\ toValidate' = <<>>
    /\ clientArgs' = <<>>
    /\ prevCache' = <<>>
    /\ outcome' = createResult(TRUE, <<>>, <<>>, 0)
    /\ NoFetch
    /\ UNCHANGED returned

\* packagesToValidate.length === 0
ValidateAllTrusted(e) ==
    /\ Enter(e)
    /\ getModifiedPackages(e).kind = "return"
    /\ Len(getModifiedPackages(e).modified) > 0
    /\ modified' = getModifiedPackages(e).modified
    /\ toValidate' = packagesToValidateOf(config, patterns, modified')
    /\ Len(toValidate') = 0
    /\ clientArgs' = <<>>
    /\ prevCache' = <<>>
    /\ outcome' = createResult(TRUE, <<>>, modified', 0)
    /\ NoFetch
    /\ UNCHANGED returned

\* a validate() that asks the Registry Client a second time
CallClientAgain(e) ==
    /\ Enter(e)
    /\ getModifiedPackages(e).kind = "return"
    /\ modified' = getModifiedPackages(e).modified
    /\ toValidate' = packagesToValidateOf(config, patterns, modified')
    /\ Len(toValidate') > 0
    /\ clientArgs' = <<packageStringsOf(toValidate'), packageStringsOf(toValidate')>>
    /\ prevCache' = LiveCache(cache, now)
    /\ uncachedAt' = uncachedOf(cache, npmPackagesOf(clientArgs'[1]), now)

\* validate() reaches getPackagesPublishDates(packageStrings)
CallClient(e) ==
    /\ Enter(e)
    /\ getModifiedPackages(e).kind = "return"
    /\ modified' = getModifiedPackages(e).modified
    /\ toValidate' = packagesToValidateOf(config, patterns, modified')
    /\ Len(toValidate') > 0
    /\ clientArgs' = <<packageStringsOf(toValidate')>>
    /\ prevCache' = LiveCache(cache, now)
    /\ uncachedAt' = uncachedOf(cache, npmPackagesOf(clientArgs'[1]), now)

\* every package is served from the cache: validate() completes at once
ValidateCached(e) ==
    /\ CallClient(e)
    /\ Len(uncachedAt') = 0
    /\ returned' = getCachedPackages(cache, npmPackagesOf(clientArgs'[1]), now)
    /\ outcome' = resultOf(config, toValidate', modified', returned', now, 0)
    /\ pc' = "idle"
    /\ reqs' = <<>>
    /\ batch' = 0
    /\ callCount' = <<>>
    /\ UNCHANGED <<cache, netCount>>

\* the retry loop runs no attempt and throws null; the catch handler of
\* fetchUncachedPackages fails reading its message, Promise.all rejects
ValidateNoAttempt(e) ==
    /\ CallClient(e)
    /\ Len(uncachedAt') > 0
    /\ ~AttemptsAllowed(config)
    /\ outcome' = Rejected(NullMessageError)
    /\ pc' = "idle"
    /\ reqs' = <<>>
    /\ batch' = 0
    /\ callCount' = <<>>
    /\ UNCHANGED <<cache, netCount, returned>>

\* the requests of the first batch are issued, validate() awaits them
ValidateFetch(e) ==
    /\ CallClient(e)
    /\ Len(uncachedAt') > 0
    /\ AttemptsAllowed(config)
    /\ LET pending == [i \in DOMAIN uncachedAt' |->
                          Request(ParsePackage(uncachedAt'[i]), "pending", 0)]
           first == batchesOf(Len(pending), config)[1]
       IN  /\ reqs' = StartBatch(pending, first)
           /\ netCount' = CountUp(netCount, KeysOf(pending, first))
           /\ callCount' = CountUp(<<>>, KeysOf(pending, first))
    /\ batch' = 1
    /\ pc' = "fetching"
    /\ UNCHANGED <<cache, returned, outcome>>

FrameUnchanged ==
    UNCHANGED <<config, patterns, now, ticks, calls, env, modified, toValidate,
                clientArgs, uncachedAt, prevCache, started, diffResult, inv,
                cli, lastCall>>

CurrentBatch == batchesOf(Len(reqs), config)[batch]

\* the first promise to settle ends the wait
BatchRaced(rs, b) == \E j \in Range(b) : rs[j].st = "done"

\* every promise of the batch has settled: Promise.all resolves
BatchSettled(rs, b) == \A j \in Range(b) : rs[j].st = "done"

\* the network answers request i; its batch is still awaited afterwards
Respond(i, resp) ==
    /\ pc = "fetching"
    /\ reqs[i].st = "out"
    /\ LET rs == [reqs EXCEPT ![i] = AfterResponse(reqs[i], resp, config)] IN
       /\ ~BatchSettled(rs, CurrentBatch)
       /\ reqs' = rs
    /\ FrameUnchanged
    /\ UNCHANGED <<cache, pc, batch, netCount, callCount, returned, outcome>>

\* the answer settles the batch: its results are cached and the requests of
\* the next batch are issued
RespondNextBatch(i, resp) ==
    /\ pc = "fetching"
    /\ reqs[i].st = "out"
    /\ batch < Len(batchesOf(Len(reqs), config))
    /\ LET rs == [reqs EXCEPT ![i] = AfterResponse(reqs[i], resp, config)]
           next == batchesOf(Len(reqs), config)[batch + 1]
       IN  /\ BatchSettled(rs, CurrentBatch)
           /\ cache' = WriteResults(cache, rs, CurrentBatch, config, now)
           /\ reqs' = StartBatch(rs, next)
           /\ netCount' = CountUp(netCount, KeysOf(rs, next))
           /\ callCount' = CountUp(callCount, KeysOf(rs, next))
    /\ batch' = batch + 1
    /\ FrameUnchanged
    /\ UNCHANGED <<pc, returned, outcome>>

\* the answer settles the last batch: getPackagesPublishDates returns and
\* validate() evaluates the ages and builds its result
RespondFinish(i, resp) ==
    /\ pc = "fetching"
    /\ reqs[i].st = "out"
    /\ batch = Len(batchesOf(Len(reqs), config))
    /\ LET rs == [reqs EXCEPT ![i] = AfterResponse(reqs[i], resp, config)] IN
       /\ BatchSettled(rs, CurrentBatch)
       /\ cache' = WriteResults(cache, rs, CurrentBatch, config, now)
       /\ reqs' = <<>>
    /\ returned' = getCachedPackages(cache', npmPackagesOf(clientArgs[1]), now)
    /\ outcome' = resultOf(config, toValidate, modified, returned', now, now - started)
    /\ pc' = "idle"
    /\ batch' = 0
    /\ callCount' = <<>>
    /\ FrameUnchanged
    /\ UNCHANGED netCount

\* the backoff timer of request i expires: the next attempt is issued
TimerFires(i) ==
    /\ pc = "fetching"
    /\ reqs[i].st = "sleep"
    /\ reqs' = [reqs EXCEPT ![i].st = "out", ![i].attempt = @ + 1]
    /\ netCount' = CountUp(netCount, <<toKey(reqs[i].name, reqs[i].version)>>)
    /\ callCount' = CountUp(callCount, <<toKey(reqs[i].name, reqs[i].version)>>)
    /\ FrameUnchanged
    /\ UNCHANGED <<cache, pc, batch, returned, outcome>>

\* time passes
Tick(d) ==
    /\ ticks < MaxTicks
    /\ now' = now + d
    /\ ticks' = ticks + 1
    /\ UNCHANGED <<config, patterns, cache, pc, calls, env, modified, toValidate,
                   clientArgs, uncachedAt, reqs, batch, netCount, callCount,
                   prevCache, started, returned, outcome, diffResult, inv,
                   cli, lastCall>>

Next ==
    \/ \E e \in Envs : ValidateDifferThrows(e)
    \/ \E e \in Envs : ValidateNothing(e)
    \/ \E e \in Envs : ValidateAllTrusted(e)
    \/ \E e \in Envs : ValidateCached(e)
    \/ \E e \in Envs : ValidateNoAttempt(e)
    \/ \E e \in Envs : ValidateFetch(e)
    \/ \E i \in DOMAIN reqs : \E resp \in Responses(reqs[i].name) : Respond(i, resp)
    \/ \E i \in DOMAIN reqs : \E resp \in Responses(reqs[i].name) : RespondNextBatch(i, resp)
    \/ \E i \in DOMAIN reqs : \E resp \in Responses(reqs[i].name) : RespondFinish(i, resp)
    \/ \E i \in DOMAIN reqs : TimerFires(i)
    \/ \E d \in TickSteps : Tick(d)

Spec == Init /\ [][Next]_vars

----------------------------------------------------------------------------
(* The Registry Client called directly: getPackagesPublishDates is a public *)
(* method, and a call may be made while an earlier one awaits its batches.  *)

MaxInvocations == 2

ClientConcurrencies == {1, 2}
ClientRetryCounts == {1, 3}

\* enough attempts for the backoff delay to reach its cap twice
ManyRetries == {6}

ClientConfig(c, r) ==
    [minimumAgeHours |-> 24, trustedPackages |-> TrustedPackages,
     registry |-> [concurrency |-> c, retries |-> r, cacheEnabled |-> TRUE,
                   cacheTtlMinutes |-> 60]]

\* registry.cacheEnabled = false, as a configuration file or a caller sets it
CacheDisabled(cfg) == [cfg EXCEPT !.registry.cacheEnabled = FALSE]

ClientConfigs ==
    {ClientConfig(c, r) : c \in ClientConcurrencies, r \in ClientRetryCounts}
    \cup {ClientConfig(1, r) : r \in ManyRetries}
    \cup {CacheDisabled(ClientConfig(2, 1))}

\* package strings that name local packages
LocalFile == FilePrefix \o <<".", ".", "/", "l">>
LocalPath == DotSlash \o <<"p">>
LocalLib == <<"m">> \o LibAt \o <<"s", "/", "u", "@", "1">>

\* the argument lists of the direct calls
ClientArgLists ==
    { <<toKey(A, V1), LocalFile, toKey(D, V2)>>,
      <<LocalLib, toKey(N, V1), LocalPath, toKey(B, V2)>>,
      <<toKey(C, V1), toKey(D, V1)>>,
      <<LocalPath, A>>,
      <<LocalPath, LocalFile>> }

\* one getPackagesPublishDates(packages) call: st is "await" while
\* fetchUncachedPackages runs, then "returned" or "rejected"; warned lists
\* the keys of the 'Failed to fetch' warnings it logged
Invocation(packages, uncached, rs, b, st, result, warned) ==
    [args |-> packages, uncached |-> uncached, reqs |-> rs, batch |-> b,
     st |-> st, result |-> result, warned |-> warned]

\* if (error) this.logger.warn(...), for the results of batch b
WarnedKeys(rs, b) ==
    LET Failed(j) == rs[j].error # <<>>
        failed == SelectSeq(b, Failed)
    IN  KeysOf(rs, failed)

InitClient ==
    /\ Constructed(ClientConfigs)
    /\ cli = NoCli
    /\ lastCall = NoCall

ValidatorUnchanged ==
    UNCHANGED <<config, patterns, now, ticks, pc, calls, env, modified, toValidate,
                clientArgs, uncachedAt, reqs, batch, callCount, prevCache,
                started, returned, outcome, diffResult, cli, lastCall>>

\* no call is inside a loop that never returns control to the event loop
EventLoopFree == \A k \in DOMAIN inv : inv[k].st # "looping"

\* getPackagesPublishDates(packages) up to its first await; st is "looping"
\* when createBatches never returns
ClientCall(packages) ==
    /\ Len(inv) < MaxInvocations
    /\ EventLoopFree
    /\ LET npmPackages == npmPackagesOf(packages)
           uncached == uncachedOf(cache, npmPackages, now)
           pending == [i \in DOMAIN uncached |->
                          Request(ParsePackage(uncached[i]), "pending", 0)]
       IN  IF Len(uncached) = 0
           THEN /\ inv' = Append(inv, Invocation(packages, uncached, <<>>, 0, "returned",
                                     getCachedPackages(cache, npmPackages, now), <<>>))
                /\ UNCHANGED netCount
           ELSE IF createBatchesLoopsForever(pending, config.registry.concurrency)
           THEN /\ inv' = Append(inv, Invocation(packages, uncached, pending, 0,
                                     "looping", <<>>, <<>>))
                /\ UNCHANGED netCount
           ELSE IF ~AttemptsAllowed(config)
           THEN /\ inv' = Append(inv, Invocation(packages, uncached, pending, 0,
                                     "rejected", <<>>, <<>>))
                /\ UNCHANGED netCount
           ELSE LET first == batchesOf(Len(pending), config)[1] IN
                /\ inv' = Append(inv, Invocation(packages, uncached,
                                     StartBatch(pending, first), 1, "await", <<>>, <<>>))
                /\ netCount' = CountUp(netCount, KeysOf(pending, first))
    /\ UNCHANGED cache
    /\ ValidatorUnchanged

\* the network answers request i of invocation k; when that settles the
\* batch its results are cached, and the next batch is issued or the call returns
ClientResponse(k, i, resp) ==
    /\ EventLoopFree
    /\ inv[k].st = "await"
    /\ inv[k].reqs[i].st = "out"
    /\ LET v == inv[k]
           rs == [v.reqs EXCEPT ![i] = AfterResponse(v.reqs[i], resp, config)]
           bs == batchesOf(Len(v.reqs), config)
           cur == bs[v.batch]
       IN  IF ~BatchSettled(rs, cur)
           THEN /\ inv' = [inv EXCEPT ![k].reqs = rs]
                /\ UNCHANGED <<cache, netCount>>
           ELSE /\ cache' = WriteResults(cache, rs, cur, config, now)
                /\ IF v.batch < Len(bs)
                   THEN /\ inv' = [inv EXCEPT ![k].reqs = StartBatch(rs, bs[v.batch + 1]),
                                              ![k].batch = v.batch + 1,
                                              ![k].warned = @ \o WarnedKeys(rs, cur)]
                        /\ netCount' = CountUp(netCount, KeysOf(rs, bs[v.batch + 1]))
                   ELSE /\ inv' = [inv EXCEPT ![k].reqs = rs,
                                              ![k].st = "returned",
                                              ![k].warned = @ \o WarnedKeys(rs, cur),
                                              ![k].result =
                                                  getCachedPackages(cache',
                                                      npmPackagesOf(v.args), now)]
                        /\ UNCHANGED netCount
    /\ ValidatorUnchanged

\* the backoff timer of request i of invocation k expires
ClientTimer(k, i) ==
    /\ EventLoopFree
    /\ inv[k].st = "await"
    /\ inv[k].reqs[i].st = "sleep"
    /\ inv' = [inv EXCEPT ![k].reqs[i].st = "out", ![k].reqs[i].attempt = @ + 1]
    /\ netCount' = CountUp(netCount, <<toKey(inv[k].reqs[i].name, inv[k].reqs[i].version)>>)
    /\ UNCHANGED cache
    /\ ValidatorUnchanged

NextClient ==
    \/ \E packages \in ClientArgLists : ClientCall(packages)
    \/ \E k \in DOMAIN inv : \E i \in DOMAIN inv[k].reqs :
          \E resp \in Responses(inv[k].reqs[i].name) : ClientResponse(k, i, resp)
    \/ \E k \in DOMAIN inv : \E i \in DOMAIN inv[k].reqs : ClientTimer(k, i)

SpecClient == InitClient /\ [][NextClient]_vars

\* the client constructed with any integer as registry.concurrency, as
\* --concurrency <num> or a configuration file sets it
BatchSizes == {-1, 0, 1, 2}

BatchingConfigs == {ClientConfig(c, 2) : c \in BatchSizes}

InitBatching ==
    /\ Constructed(BatchingConfigs)
    /\ cli = NoCli
    /\ lastCall = NoCall

SpecBatching == InitBatching /\ [][NextClient]_vars

----------------------------------------------------------------------------
(* The library functions called on their own: configuration loading, the    *)
(* trusted-pattern test of a PackageValidator, and the GitHelper.           *)

PipelineUnchanged ==
    UNCHANGED <<config, patterns, now, ticks, cache, pc, calls, env, modified,
                toValidate, clientArgs, uncachedAt, reqs, batch, netCount,
                callCount, prevCache, started, returned, outcome, diffResult, inv>>

X == <<"x">>
Y == <<"y">>
Z == <<"z">>

\* a working-tree lockfile with packages nested one and two levels deep and
\* a package installed inside a workspace folder, none of them listed in a
\* dependencies object
LockNested ==
    [root |-> RootOf(<< <<A, <<"^", "1">> >> >>, <<>>),
     packages |-> << Entry(PathOf(A), V1, <<B>>),
                     Entry(PathOf(B), V1, <<>>),
                     Entry(NestedPath(A, X), V1, <<>>),
                     Entry(NestedPath(A, B) \o NodeModulesSep \o Y, V1, <<>>),
                     Entry(PathOf(Z), V1, <<>>),
                     Entry(<<"w">> \o NodeModulesSep \o TX, V2, <<>>) >>]

\* a working-tree lockfile in which c is a dependency of a and of b, b is a
\* devDependency of the root and a dependency of a, d is one of b only
LockEdges ==
    [root |-> RootOf(<< <<A, <<"^", "1">> >> >>, << <<B, <<"^", "2">> >> >>),
     packages |-> << Entry(PathOf(A), V1, <<B, C>>),
                     Entry(PathOf(B), V2, <<C, D>>),
                     Entry(PathOf(C), V2, <<>>),
                     Entry(PathOf(D), V2, <<>>),
                     Entry(NestedPath(B, C), V1, <<>>) >>]

\* the repository states the Differ is called in on its own
DifferEnvs ==
    {Env(TRUE, TRUE, JsonOf(l), JsonOf(LockHead)) :
        l \in {LockCur, LockNested, LockEdges, LockLinked}}
    \cup {Env(FALSE, FALSE, JsonOf(LockEdges), Unreadable),
          Env(TRUE, TRUE, JsonOf(LockNested), Unreadable)}

\* differ.getModifiedPackages()
GetModifiedPackages(e) ==
    /\ lastCall' = Call("getModifiedPackages", e, getModifiedPackages(e))
    /\ PipelineUnchanged
    /\ UNCHANGED cli

\* the trustedPackages lists a validator is constructed with
TrustedLists ==
    { TrustedPackages,
      DefaultTrustedPackages,
      << <<"t", ".", "*">> >>,
      << <<"*", "s">>, A >>,
      << <<"a", "*", "b", "*">> >> }

PackageNames ==
    { A, B, TS, TX, <<>>,
      <<"t", ".", "s">>, <<"t", ".">>, <<"t", "s", "x">>,
      <<"a", "b">>, <<"a", "x", "b", "y">>, <<"b", "a">>,
      <<"e", "s", "l", "i", "n", "t">>,
      <<"z", "o", "n", "e", ".", "j", "s">>,
      <<"z", "o", "n", "e", "x", "j", "s">> }

LoadConfig(content) ==
    /\ lastCall' = Call("loadConfig", content, loadConfig(content))
    /\ PipelineUnchanged
    /\ UNCHANGED cli

\* validatePackages(config) up to the construction of the PackageValidator
ValidatePackages(partialConfig) ==
    /\ lastCall' = Call("validatePackages", partialConfig,
                        Completed(fullConfigOf(partialConfig)))
    /\ PipelineUnchanged
    /\ UNCHANGED cli

\* isTrustedPackage(packageName) of a validator constructed with the list
IsTrustedPackage(trusted, packageName) ==
    /\ LET cfg == [trustedPackages |-> trusted] IN
       lastCall' = Call("isTrustedPackage",
                        [trustedPackages |-> trusted, packageName |-> packageName],
                        Completed(isTrustedPackage(cfg, trustedPatternsCache(cfg),
                                                   packageName)))
    /\ PipelineUnchanged
    /\ UNCHANGED cli

ExecuteCommand(run) ==
    /\ lastCall' = Call("executeCommand", run, executeCommand(run))
    /\ PipelineUnchanged
    /\ UNCHANGED cli

HasPackageLockChanges(run) ==
    /\ lastCall' = Call("hasPackageLockChanges", run, hasPackageLockChanges(run))
    /\ PipelineUnchanged
    /\ UNCHANGED cli

GetPackageLockFromHead(run) ==
    /\ lastCall' = Call("getPackageLockFromHead", run, getPackageLockFromHead(run))
    /\ PipelineUnchanged
    /\ UNCHANGED cli

GetCurrentBranch(run) ==
    /\ lastCall' = Call("getCurrentBranch", run, getCurrentBranch(run))
    /\ PipelineUnchanged
    /\ UNCHANGED cli

GetLastCommitHash(run) ==
    /\ lastCall' = Call("getLastCommitHash", run, getLastCommitHash(run))
    /\ PipelineUnchanged
    /\ UNCHANGED cli

IsGitRepository(run) ==
    /\ lastCall' = Call("isGitRepository", run, isGitRepository(run))
    /\ PipelineUnchanged
    /\ UNCHANGED cli

NextLibrary ==
    \/ \E content \in ConfigFiles : LoadConfig(content)
    \/ \E partialConfig \in UserConfigs : ValidatePackages(partialConfig)
    \/ \E trusted \in TrustedLists : \E name \in PackageNames :
          IsTrustedPackage(trusted, name)
    \/ \E e \in DifferEnvs : GetModifiedPackages(e)
    \/ \E run \in GitRuns : ExecuteCommand(run)
    \/ \E run \in GitRuns : HasPackageLockChanges(run)
    \/ \E run \in GitRuns : GetPackageLockFromHead(run)
    \/ \E run \in GitRuns : GetCurrentBranch(run)
    \/ \E run \in GitRuns : GetLastCommitHash(run)
    \/ \E run \in GitRuns : IsGitRepository(run)

SpecLibrary == Init /\ [][NextLibrary]_vars

----------------------------------------------------------------------------
(* The command-line program: runValidation loads the configuration, awaits  *)
(* validatePackages once and ends the process.                              *)

\* a configuration file that sets both values the command line can override
ConfigFileWithValues == ConfigJson([minimumAgeHours |-> 72, registry |-> [concurrency |-> 5]])

\* the command lines: --config, --dry-run, --min-age and --concurrency, each
\* written or not
CliInvocations ==
    {Argv(f, d, a, n) : f \in {<<>>, <<Unreadable>>, <<Garbage>>,
                                <<ConfigFileWithValues>>},
                        d \in BOOLEAN,
                        a \in {<<>>, << <<"4", "8">> >>},
                        n \in {<<>>, << <<"2">> >>}}

\* config is the configuration runValidation hands to validatePackages when
\* the file, if one is named, can be loaded
InitCli ==
    /\ Constructed(Configs)
    /\ cli \in {Command(argv, <<>>) : argv \in CliInvocations}
    /\ lastCall = NoCall

ConfigLoads ==
    IF cli.options.config = <<>> THEN TRUE
    ELSE loadConfig(cli.options.config[1]).kind = "return"

\* runValidation loads the configuration and applies the overrides
LoadConfiguration ==
    /\ cli.exit = <<>>
    /\ lastCall = NoCall
    /\ lastCall' = Call("runValidation", cli.options, configOfRun(cli.options))
    /\ PipelineUnchanged
    /\ UNCHANGED cli

\* the process is running and has not called validatePackages yet
BeforeValidation == cli.exit = <<>> /\ lastCall # NoCall /\ ConfigLoads /\ calls = 0

\* loadConfig rejects: the catch block of runValidation exits with 1
CliConfigFails ==
    /\ cli.exit = <<>>
    /\ lastCall # NoCall
    /\ ~ConfigLoads
    /\ cli' = [cli EXCEPT !.exit = <<1>>]
    /\ PipelineUnchanged
    /\ UNCHANGED lastCall

\* validatePackages has settled: output, then process.exit
ProcessExit ==
    /\ cli.exit = <<>>
    /\ pc = "idle"
    /\ calls = 1
    /\ cli' = [cli EXCEPT !.exit = <<ExitStatus(outcome, cli.options.dryRun)>>]
    /\ PipelineUnchanged
    /\ UNCHANGED lastCall

NextCli ==
    \/ LoadConfiguration
    \/ CliConfigFails
    \/ \E e \in Envs : BeforeValidation /\ ValidateDifferThrows(e)
    \/ \E e \in Envs : BeforeValidation /\ ValidateNothing(e)
    \/ \E e \in Envs : BeforeValidation /\ ValidateAllTrusted(e)
    \/ \E e \in Envs : BeforeValidation /\ ValidateNoAttempt(e)
    \/ \E e \in Envs : BeforeValidation /\ ValidateFetch(e)
    \/ \E i \in DOMAIN reqs : \E resp \in Responses(reqs[i].name) : Respond(i, resp)
    \/ \E i \in DOMAIN reqs : \E resp \in Responses(reqs[i].name) : RespondNextBatch(i, resp)
    \/ \E i \in DOMAIN reqs : \E resp \in Responses(reqs[i].name) : RespondFinish(i, resp)
    \/ \E i \in DOMAIN reqs : TimerFires(i)
    \/ \E d \in TickSteps : cli.exit = <<>> /\ Tick(d)
    \/ ProcessExit

SpecCli == InitCli /\ [][NextCli]_vars

----------------------------------------------------------------------------
(* Vocabulary of the properties *)

RECURSIVE GlobMatches(_, _)
\* name is pattern with every "*" replaced by some string
GlobMatches(pattern, name) ==
    IF Len(pattern) = 0 THEN Len(name) = 0
    ELSE IF Head(pattern) = "*"
    THEN \/ GlobMatches(Tail(pattern), name)
         \/ Len(name) > 0 /\ GlobMatches(pattern, Tail(name))
    ELSE /\ Len(name) > 0
         /\ Head(name) = Head(pattern)
         /\ GlobMatches(Tail(pattern), Tail(name))

\* the name matches a configured trusted pattern
TrustedName(name) ==
    \E i \in DOMAIN config.trustedPackages : GlobMatches(config.trustedPackages[i], name)

\* the last validate() call has returned a ValidationResult
Returned == pc = "idle" /\ outcome.kind = "resolved"

\* the last validate() call returned after consulting the Registry Client
ReturnedFromClient == Returned /\ clientArgs # <<>>

\* the instant at which the last validate() call evaluated the ages
EvaluatedAt == started + outcome.summary.executionTimeMs

ViolationKey(v) == v.name \o <<"@">> \o v.version

\* the candidate is listed in result.violations
Recorded(pkg) ==
    \E j \in DOMAIN outcome.violations :
        /\ outcome.violations[j].name = pkg.name
        /\ outcome.violations[j].version = pkg.version
        /\ outcome.violations[j].parent = pkg.parent

\* the lockfile is read by the branch the Differ takes, and cannot be read or parsed
LockfileBroken(e) ==
    /\ ~e.isGitRepository \/ e.hasPackageLockChanges
    /\ e.current.kind # "json"

----------------------------------------------------------------------------
(* C1: a candidate that is not trusted and whose publish date was resolved  *)
(* is listed in the violations exactly when its age, (now - publishDate)    *)
(* / 3600000, is below minimumAgeHours; at exactly minimumAgeHours it is    *)
(* not listed.                                                              *)

C1_ViolationIffYounger ==
    ReturnedFromClient =>
        \A i \in DOMAIN toValidate :
            LET key == fromPackageInfo(toValidate[i]) IN
            key \in DOMAIN returned =>
                (Recorded(toValidate[i])
                    <=> EvaluatedAt - returned[key] < config.minimumAgeHours * HourMs)

\* a candidate aged exactly minimumAgeHours was evaluated next to a younger one
C1_Witness ==
    /\ ReturnedFromClient
    /\ \E i \in DOMAIN toValidate :
          /\ fromPackageInfo(toValidate[i]) \in DOMAIN returned
          /\ EvaluatedAt - returned[fromPackageInfo(toValidate[i])]
                = config.minimumAgeHours * HourMs
          /\ ~Recorded(toValidate[i])

----------------------------------------------------------------------------
(* C2: a candidate whose name matches a configured trusted pattern (exact   *)
(* or wildcard) is never listed in the violations, its name@version key is  *)
(* never passed to the Registry Client and no request is issued for it.     *)

C2_TrustedNeverChecked ==
    /\ \A j \in DOMAIN outcome.violations : ~TrustedName(outcome.violations[j].name)
    /\ \A i \in DOMAIN modified :
          TrustedName(modified[i].name) =>
              /\ \A c \in DOMAIN clientArgs :
                    fromPackageInfo(modified[i]) \notin Range(clientArgs[c])
              /\ fromPackageInfo(modified[i]) \notin DOMAIN callCount
              /\ fromPackageInfo(modified[i]) \notin DOMAIN netCount

\* a call with a young wildcard-trusted candidate next to a recorded violation
C2_Witness ==
    /\ ReturnedFromClient
    /\ Len(outcome.violations) > 0
    /\ \E i \in DOMAIN modified :
          /\ TrustedName(modified[i].name)
          /\ modified[i].name \notin Range(config.trustedPackages)
          /\ RegistryBody(modified[i].name).time[modified[i].version].ms
                > EvaluatedAt - config.minimumAgeHours * HourMs

----------------------------------------------------------------------------
(* C3: a package whose publish date resolved to null (its cache entry       *)
(* holds no date when getPackagesPublishDates returns) is not a key of the  *)
(* returned map and is not listed in the violations.                        *)

C3_UnknownDateNeverViolates ==
    ReturnedFromClient =>
        \A key \in Range(clientArgs[1]) :
            (key \in DOMAIN cache /\ cache[key].publishDate = NoDate) =>
                /\ key \notin DOMAIN returned
                /\ \A j \in DOMAIN outcome.violations :
                      ViolationKey(outcome.violations[j]) # key

\* a call in which one package was not found (404) or had an unparseable
\* date and another exhausted its retries, beside a dated one
C3_Witness ==
    /\ ReturnedFromClient
    /\ \E key \in Range(clientArgs[1]) :
          /\ key \in DOMAIN cache
          /\ cache[key].publishDate = NoDate
          /\ cache[key].error = <<>>
    /\ \E key \in Range(clientArgs[1]) :
          /\ key \in DOMAIN cache
          /\ cache[key].publishDate = NoDate
          /\ cache[key].error # <<>>

----------------------------------------------------------------------------
(* C4: every ValidationResult returned by validate() has success = true    *)
(* exactly when its violations list is empty.                               *)

C4_SuccessIffNoViolations ==
    outcome.kind = "resolved" => (outcome.success <=> Len(outcome.violations) = 0)

\* a result that lists violations
C4_Witness ==
    /\ Returned
    /\ Len(outcome.violations) > 0
    /\ ~outcome.success

----------------------------------------------------------------------------
(* C5: whenever the lockfile cannot be read or parsed in a branch that      *)
(* reads it (not a git repository, new file, modified file),                *)
(* getModifiedPackages fails with one descriptive error, so validate()      *)
(* rejects and never reports success.                                       *)

C5_BrokenLockfileAlwaysFails ==
    (pc = "idle" /\ calls > 0 /\ LockfileBroken(env)) =>
        /\ outcome.kind = "rejected"
        /\ StartsWith(outcome.error, <<"Error analyzing package-lock.json changes: ">>)

----------------------------------------------------------------------------
(* C6: when the Differ or the Registry Client raises an exception during    *)
(* validate(), validate() rejects with that same error and returns no       *)
(* successful ValidationResult.                                             *)

\* the Registry Client raised: its retry loop ran no attempt for an uncached package
ClientRaised ==
    clientArgs # <<>> /\ Len(uncachedAt) > 0 /\ config.registry.retries < 1

C6_ExceptionsPropagate ==
    (pc = "idle" /\ calls > 0) =>
        /\ getModifiedPackages(env).kind = "throw" =>
              /\ outcome.kind = "rejected"
              /\ ~outcome.success
              /\ outcome.error = getModifiedPackages(env).error
        /\ ClientRaised =>
              /\ outcome.kind = "rejected"
              /\ ~outcome.success
              /\ outcome.error = NullMessageError

\* a call rejected with the Differ's error, after an earlier call was
\* rejected or resolved
C6_Witness ==
    /\ pc = "idle"
    /\ calls = 2
    /\ getModifiedPackages(env).kind = "throw"
    /\ env.current.kind = "json"
    /\ outcome.kind = "rejected"

----------------------------------------------------------------------------
(* C7: validate() does not call the Registry Client and issues no request   *)
(* when the Differ yields no candidate or when every candidate is trusted;  *)
(* it then returns success = true with no violations.                       *)

C7_NoRegistryAccessWhenNothingToCheck ==
    (/\ pc = "idle"
     /\ calls > 0
     /\ getModifiedPackages(env).kind = "return"
     /\ \A i \in DOMAIN getModifiedPackages(env).modified :
           TrustedName(getModifiedPackages(env).modified[i].name))
    => /\ clientArgs = <<>>
       /\ callCount = <<>>
       /\ outcome.kind = "resolved"
       /\ outcome.success
       /\ outcome.violations = <<>>

\* a second call whose candidates are all trusted, one of them by a wildcard
C7_Witness ==
    /\ Returned
    /\ calls = 2
    /\ Len(modified) > 0
    /\ \A i \in DOMAIN modified : TrustedName(modified[i].name)
    /\ \E i \in DOMAIN modified : modified[i].name \notin Range(config.trustedPackages)
    /\ clientArgs = <<>>

----------------------------------------------------------------------------
(* C8: two getPackagesPublishDates calls with the same key within the TTL   *)
(* issue exactly one network request for the key, and the second call       *)
(* returns the date the first one cached.                                   *)

\* the keys of the current call for which an earlier call cached a date
\* that the current call found live
DatedBefore ==
    IF clientArgs = <<>> THEN {}
    ELSE {key \in Range(clientArgs[1]) \cap DOMAIN prevCache :
            prevCache[key].publishDate # NoDate}

\* the key is listed once in the argument of the current call
ListedOnce(key) ==
    Cardinality({i \in DOMAIN clientArgs[1] : clientArgs[1][i] = key}) = 1

\* the claim as stated, for a key the calls list once
C8_ExactlyOneRequest ==
    ReturnedFromClient =>
        \A key \in {k \in DatedBefore : ListedOnce(k)} :
            /\ netCount[key] = 1
            /\ IsLive(prevCache[key], EvaluatedAt) =>
                  /\ key \in DOMAIN returned
                  /\ returned[key] = prevCache[key].publishDate[1]

\* amended: the second call issues no request for the key and returns the
\* cached date; the first call issued at least one (one per attempt)
C8_CachedDateNotRefetched ==
    \A key \in DatedBefore :
        /\ key \notin DOMAIN callCount
        /\ netCount[key] >= 1
        /\ (ReturnedFromClient /\ IsLive(prevCache[key], EvaluatedAt)) =>
              /\ key \in DOMAIN returned
              /\ returned[key] = prevCache[key].publishDate[1]

\* a second call served one key from the cache while it fetched another
C8_Witness ==
    /\ ReturnedFromClient
    /\ calls = 2
    /\ Len(uncachedAt) > 0
    /\ \E key \in DatedBefore : returned[key] = prevCache[key].publishDate[1]

----------------------------------------------------------------------------
(* C9: a key whose earlier fetch ended with no date (404, missing version,  *)
(* unparseable date, exhausted retries) is not requested again by a later   *)
(* call within the TTL.                                                     *)

C9_UnknownOutcomeNotRefetched ==
    clientArgs # <<>> =>
        \A key \in Range(clientArgs[1]) \cap DOMAIN prevCache :
            prevCache[key].publishDate = NoDate => key \notin DOMAIN callCount

----------------------------------------------------------------------------
(* C10: the uncached entries are split in input order into consecutive      *)
(* batches of size concurrency (the last may be smaller); no request of a   *)
(* batch is issued before every request of the batch before it has          *)
(* settled, so at most concurrency requests are outstanding.                *)

MaxEntries == 5

RECURSIVE Flatten(_)
Flatten(bs) == IF Len(bs) = 0 THEN <<>> ELSE Head(bs) \o Flatten(Tail(bs))

\* bs splits 1..n in order into batches of size, the last one of 1..size
WellBatched(bs, n, size) ==
    /\ Flatten(bs) = Indices(n)
    /\ \A k \in DOMAIN bs :
          IF k < Len(bs) THEN Len(bs[k]) = size
          ELSE Len(bs[k]) >= 1 /\ Len(bs[k]) <= size

InFlight == {i \in DOMAIN reqs : reqs[i].st \in {"out", "sleep"}}

C10_BatchesInSequence ==
    /\ \A n \in 0..MaxEntries :
          WellBatched(batchesOf(n, config), n, config.registry.concurrency)
    /\ (config.registry.concurrency = 2 =>
            batchesOf(5, config) = << <<1, 2>>, <<3, 4>>, <<5>> >>)
    /\ pc = "fetching" =>
          LET bs == batchesOf(Len(reqs), config) IN
          /\ \A i \in DOMAIN reqs :
                /\ reqs[i].name = ParsePackage(uncachedAt[i]).name
                /\ reqs[i].version = ParsePackage(uncachedAt[i]).version
          /\ \A k \in DOMAIN bs : \A i \in Range(bs[k]) :
                reqs[i].st # "pending" =>
                    \A h \in 1..(k - 1) : \A j \in Range(bs[h]) : reqs[j].st = "done"
          /\ Cardinality(InFlight) <= config.registry.concurrency

\* the second wave of a call with three uncached entries and concurrency 2
\* is outstanding after a request of the first wave was retried
C10_Witness ==
    /\ pc = "fetching"
    /\ config.registry.concurrency = 2
    /\ Len(reqs) = 3
    /\ reqs[3].st = "out"
    /\ reqs[1].st = "done" /\ reqs[2].st = "done"
    /\ reqs[1].attempt = 2

----------------------------------------------------------------------------
(* C11: at every moment the number of outstanding registry requests of one  *)
(* Registry Client is at most the configured concurrency, also when         *)
(* getPackagesPublishDates is called again while an earlier call is still   *)
(* awaiting its batches.                                                    *)

\* the requests of invocation k that are on the network
OutstandingOf(k) == {i \in DOMAIN inv[k].reqs : inv[k].reqs[i].st = "out"}

RECURSIVE OutstandingUpTo(_)
OutstandingUpTo(k) ==
    IF k = 0 THEN 0 ELSE Cardinality(OutstandingOf(k)) + OutstandingUpTo(k - 1)

Outstanding == OutstandingUpTo(Len(inv))

C11_OutstandingAtMostConcurrency ==
    Outstanding <= config.registry.concurrency

----------------------------------------------------------------------------
(* C12: fetchPackageInfoWithRetry makes at most `retries` request attempts; *)
(* it stops at the first attempt that does not fail transiently and         *)
(* returns that attempt's date.  With retries = 3, two timeouts followed by *)
(* a success yield the resolved date after exactly three requests.          *)

\* every request record of the direct invocations, as <<k, i>>
ClientRequests == {p \in (DOMAIN inv) \X (1..MaxEntries) : p[2] \in DOMAIN inv[p[1]].reqs}

RequestAt(p) == inv[p[1]].reqs[p[2]]

RECURSIVE AttemptsFor(_, _)
\* the attempts made for key by the requests of ps
AttemptsFor(key, ps) ==
    IF ps = {} THEN 0
    ELSE LET p == CHOOSE q \in ps : TRUE
             r == RequestAt(p)
         IN  (IF toKey(r.name, r.version) = key THEN r.attempt ELSE 0)
             + AttemptsFor(key, ps \ {p})

\* the attempts before the last one failed, and a resolving attempt is the last
StopsAtFirstSuccess(r) ==
    /\ \A j \in 1..(Len(r.settled) - 1) : r.settled[j].kind = "reject"
    /\ r.st # "done" => \A j \in DOMAIN r.settled : r.settled[j].kind = "reject"
    /\ r.st = "done" =>
          LET last == r.settled[Len(r.settled)] IN
          IF last.kind = "resolve"
          THEN r.date = last.date /\ r.error = <<>>
          ELSE r.date = NoDate /\ Len(r.settled) = config.registry.retries

C12_AtMostRetriesAttempts ==
    /\ \A p \in ClientRequests :
          LET r == RequestAt(p) IN
          /\ r.attempt <= config.registry.retries
          /\ Len(r.settled) = (IF r.st = "out" THEN r.attempt - 1 ELSE r.attempt)
          /\ StopsAtFirstSuccess(r)
    /\ \A key \in DOMAIN netCount : netCount[key] = AttemptsFor(key, ClientRequests)

C12_Witness ==
    /\ config.registry.retries = 3
    /\ \E p \in ClientRequests :
          LET r == RequestAt(p) IN
          /\ r.name = A /\ r.version = V1
          /\ r.settled = <<Reject(<<"Request timeout">>), Reject(<<"Request timeout">>),
                           Resolve(DateOf(T0 - 24 * HourMs + 1))>>
          /\ inv[p[1]].st = "returned"
          /\ inv[p[1]].result[toKey(A, V1)] = T0 - 24 * HourMs + 1
          /\ netCount[toKey(A, V1)] = 3

----------------------------------------------------------------------------
(* C13: the delay slept after the k-th failed attempt and before attempt    *)
(* k+1 is min(1000 * 2^(k-1), 5000) ms: 1000, 2000, 4000, 5000, 5000, ...;  *)
(* exactly one delay lies between two consecutive attempts and none is      *)
(* slept after the final failed attempt.                                    *)

ExpectedDelays == <<1000, 2000, 4000, 5000, 5000>>

C13_BackoffDelays ==
    \A p \in ClientRequests :
        LET r == RequestAt(p) IN
        /\ Len(r.slept) <= Len(ExpectedDelays)
        /\ r.slept = SubSeq(ExpectedDelays, 1, Len(r.slept))
        /\ r.st = "out" => Len(r.slept) = r.attempt - 1
        /\ r.st = "sleep" =>
              /\ Len(r.slept) = r.attempt
              /\ r.delay = ExpectedDelays[r.attempt]
              /\ r.attempt < config.registry.retries
        /\ r.st = "done" => Len(r.slept) = r.attempt - 1
        /\ r.st = "pending" => r.slept = <<>>

C13_Witness ==
    /\ config.registry.retries = 6
    /\ \E p \in ClientRequests :
          LET r == RequestAt(p) IN
          /\ r.st = "done"
          /\ r.attempt = 6
          /\ r.settled[6].kind = "reject"
          /\ r.slept = <<1000, 2000, 4000, 5000, 5000>>

----------------------------------------------------------------------------
(* C14: for retries >= 1, when every attempt for a package fails with a     *)
(* transient error (status other than 200/404, JSON parse failure, timeout  *)
(* or transport error), getPackagesPublishDates still resolves: a cache     *)
(* entry with publishDate = null and the error message is written for the   *)
(* key, a warning is logged, and every other package of the same call is    *)
(* still fetched and returned.                                              *)

\* every attempt of the request failed and none is left
Exhausted(r) ==
    /\ r.st = "done"
    /\ r.settled[Len(r.settled)].kind = "reject"

\* no other invocation fetches the key, so none overwrites its cache entry
SoleRequester(k, key) ==
    \A j \in DOMAIN inv : j # k =>
        \A i \in DOMAIN inv[j].reqs :
            toKey(inv[j].reqs[i].name, inv[j].reqs[i].version) # key

\* the cache entry and the warning of a request whose attempts all failed
FailureRecorded(k, r) ==
    LET key == toKey(r.name, r.version) IN
    /\ key \in Range(inv[k].warned)
    /\ SoleRequester(k, key) =>
          /\ key \in DOMAIN cache
          /\ cache[key].publishDate = NoDate
          /\ cache[key].error # <<>>
          /\ cache[key].error = r.settled[Len(r.settled)].error

\* the other requests of the call were made, and their dates are in its result
OthersReturned(k) ==
    \A i \in DOMAIN inv[k].reqs :
        LET r == inv[k].reqs[i]
            key == toKey(r.name, r.version)
        IN  /\ r.st = "done"
            /\ r.attempt >= 1
            /\ (r.date # NoDate /\ SoleRequester(k, key) /\ key \in Range(inv[k].args))
                  => key \in DOMAIN inv[k].result /\ inv[k].result[key] = r.date[1]

C14_ExhaustedRetriesAreRecorded ==
    \A k \in DOMAIN inv :
        /\ inv[k].st # "rejected"
        /\ inv[k].st = "returned" =>
              \A i \in DOMAIN inv[k].reqs :
                  Exhausted(inv[k].reqs[i]) =>
                      FailureRecorded(k, inv[k].reqs[i]) /\ OthersReturned(k)

----------------------------------------------------------------------------
(* C15: a registry answer of semantic absence (HTTP 404, a 200 response     *)
(* without a time entry for the requested version, or an unparseable        *)
(* timestamp) resolves the package to null after exactly one request: no    *)
(* retry is attempted and no backoff delay is slept for it.                 *)

\* the answer says that the registry knows no publish date for the version
SemanticAbsence(resp, version) ==
    /\ resp.net = "response"
    /\ \/ resp.status = 404
       \/ /\ resp.status = 200
          /\ resp.body.json
          /\ \/ /\ version \in DOMAIN resp.body.time
                /\ ~resp.body.time[version].valid
             \/ /\ version \notin DOMAIN resp.body.time
                /\ version # Latest

C15_AbsenceIsNotRetried ==
    \A p \in ClientRequests :
        LET r == RequestAt(p) IN
        \A j \in DOMAIN r.answers :
            SemanticAbsence(r.answers[j], r.version) =>
                /\ j = Len(r.answers)
                /\ r.st = "done"
                /\ r.date = NoDate
                /\ r.error = <<>>
                /\ r.attempt = j
                /\ Len(r.slept) = j - 1
                /\ j = 1 => r.slept = <<>>

\* each kind of absence answered the first attempt of a request
C15_Witness ==
    \E p1, p2, p3 \in ClientRequests :
        /\ RequestAt(p1).name = N /\ RequestAt(p1).answers = <<HttpResponse(404, NoBody)>>
        /\ RequestAt(p2).name = C /\ RequestAt(p2).answers = <<HttpResponse(200, RegistryBody(C))>>
        /\ RequestAt(p3).name = D /\ RequestAt(p3).version = V1
        /\ RequestAt(p3).answers = <<HttpResponse(200, RegistryBody(D))>>
        /\ \A p \in {p1, p2, p3} :
              /\ RequestAt(p).st = "done"
              /\ RequestAt(p).attempt = 1
              /\ RequestAt(p).date = NoDate
              /\ netCount[toKey(RequestAt(p).name, RequestAt(p).version)] = 1

----------------------------------------------------------------------------
(* C16: the map returned by getPackagesPublishDates has as keys exactly the *)
(* input strings that are not local/filesystem references and whose cache   *)
(* entry holds a non-null date; every value is a valid date; entries        *)
(* identifying local packages (file:, ./, lib/@) never appear in the map    *)
(* and never cause a network request.                                       *)

\* the string starts with file: or ./, or contains lib/@
LooksLocal(p) ==
    \/ Len(p) >= 1 /\ p[1] = "file:"
    \/ Len(p) >= 2 /\ p[1] = "." /\ p[2] = "/"
    \/ \E i \in 1..(Len(p) - 1) : p[i] = "lib/" /\ p[i + 1] = "@"

\* the timestamps the registry holds that parse to a date
ValidDates ==
    {RegistryBody(n).time[v].ms :
        <<n, v>> \in {q \in Published \X {V1, V2, V5} :
                         /\ q[2] \in DOMAIN RegistryBody(q[1]).time
                         /\ RegistryBody(q[1]).time[q[2]].valid}}

\* invocation k returns in this step
ReturnsNow(k) ==
    /\ k \in DOMAIN inv'
    /\ inv'[k].st = "returned"
    /\ k \in DOMAIN inv => inv[k].st # "returned"

NoRequestForLocal ==
    /\ \A key \in DOMAIN netCount : ~LooksLocal(key)
    /\ \A p \in ClientRequests :
          ~LooksLocal(toKey(RequestAt(p).name, RequestAt(p).version))

ReturnedKeysAreDatedNpmInputs ==
    \A k \in 1..MaxInvocations :
        ReturnsNow(k) =>
            /\ DOMAIN inv'[k].result =
                  {p \in Range(inv'[k].args) :
                      /\ ~LooksLocal(p)
                      /\ p \in DOMAIN cache'
                      /\ cache'[p].publishDate # NoDate}
            /\ \A p \in DOMAIN inv'[k].result :
                  /\ inv'[k].result[p] \in ValidDates
                  /\ cache'[p].publishDate = DateOf(inv'[k].result[p])

C16_ReturnedMapKeys ==
    []NoRequestForLocal /\ [][ReturnedKeysAreDatedNpmInputs]_vars

C16_Witness ==
    \E k \in DOMAIN inv :
        /\ inv[k].st = "returned"
        /\ inv[k].args = <<toKey(A, V1), LocalFile, toKey(D, V2)>>
        /\ DOMAIN inv[k].result = {toKey(A, V1), toKey(D, V2)}
        /\ DOMAIN netCount = {toKey(A, V1), toKey(D, V2)}

----------------------------------------------------------------------------
(* C17: in every ValidationResult, summary.totalPackages is the number of   *)
(* all candidates returned by the Differ (trusted ones included),           *)
(* summary.newPackages and summary.modifiedPackages count the candidates    *)
(* with and without the isNew flag, so that their sum is totalPackages, and *)
(* summary.violations equals violations.length.                             *)

\* the positions of the Differ's candidates that carry the isNew flag
NewCandidates == {i \in DOMAIN diffResult.modified : diffResult.modified[i].isNew}

C17_SummaryCounts ==
    Returned =>
        /\ diffResult.kind = "return"
        /\ outcome.summary.totalPackages = Len(diffResult.modified)
        /\ outcome.summary.newPackages = Cardinality(NewCandidates)
        /\ outcome.summary.modifiedPackages =
              Cardinality(DOMAIN diffResult.modified \ NewCandidates)
        /\ outcome.summary.newPackages + outcome.summary.modifiedPackages
              = outcome.summary.totalPackages
        /\ outcome.summary.violations = Len(outcome.violations)

\* a result whose candidates include trusted, new and changed packages
C17_Witness ==
    /\ ReturnedFromClient
    /\ outcome.summary.totalPackages > Len(toValidate)
    /\ outcome.summary.newPackages > 0
    /\ outcome.summary.modifiedPackages > 0
    /\ outcome.summary.violations > 0

----------------------------------------------------------------------------
(* C18: result.violations contains exactly one entry per failing            *)
(* non-trusted candidate, in candidate order, with name, version and parent *)
(* copied from the candidate, publishDate equal to the resolved date and    *)
(* ageInHours equal to the computed age rounded to one decimal place;       *)
(* validate() does not modify the PackageInfo objects the Differ produced.  *)

\* the candidate at position i of the Differ's list fails the age check
FailsAgeCheck(i) ==
    LET pkg == diffResult.modified[i]
        key == pkg.name \o <<"@">> \o pkg.version
    IN  /\ ~TrustedName(pkg.name)
        /\ key \in DOMAIN returned
        /\ EvaluatedAt - returned[key] < config.minimumAgeHours * HourMs

\* the positions of the failing candidates, in candidate order
FailingCandidates ==
    SelectSeq([i \in 1..Len(diffResult.modified) |-> i], FailsAgeCheck)

\* tenths is a nearest number of tenths of an hour to ageMs
NearestTenths(tenths, ageMs) ==
    LET d == ageMs * 10 - tenths * HourMs IN
    (IF d >= 0 THEN d ELSE 0 - d) * 2 <= HourMs

C18_ViolationsMirrorFailingCandidates ==
    /\ pc = "fetching" => modified = diffResult.modified
    /\ ReturnedFromClient =>
          /\ modified = diffResult.modified
          /\ Len(outcome.violations) = Len(FailingCandidates)
          /\ \A j \in DOMAIN outcome.violations :
                LET v == outcome.violations[j]
                    pkg == diffResult.modified[FailingCandidates[j]]
                    date == returned[pkg.name \o <<"@">> \o pkg.version]
                IN  /\ v.name = pkg.name
                    /\ v.version = pkg.version
                    /\ v.parent = pkg.parent
                    /\ v.publishDate = date
                    /\ NearestTenths(v.ageInHours, EvaluatedAt - date)

\* two candidates with the same key both fail, next to a candidate that
\* does not, with an age that needed rounding
C18_Witness ==
    /\ ReturnedFromClient
    /\ Len(outcome.violations) = 2
    /\ Len(toValidate) > 2
    /\ ViolationKey(outcome.violations[1]) = ViolationKey(outcome.violations[2])
    /\ outcome.violations[1].ageInHours = 10
    /\ EvaluatedAt - outcome.violations[1].publishDate = HourMs + 1

----------------------------------------------------------------------------
(* C19: getModifiedPackages selects exactly one outcome, in this priority:  *)
(* not a git repository -> the direct dependencies of the root, each        *)
(* isNew = true; git reports no lockfile change -> {modified: [],           *)
(* isNewFile: false, changedFiles: []} without reading the lockfile; the    *)
(* lockfile changed but no committed version exists -> the direct           *)
(* dependencies with isNewFile = true; otherwise -> the full diff of the    *)
(* working-tree lockfile against the committed one with isNewFile = false.  *)

\* the result lists the root's dependencies, then its devDependencies, all new
ListsDirectDependencies(result, lock) ==
    LET deps == lock.root.dependencies
        devs == lock.root.devDependencies
    IN  /\ result.kind = "return"
        /\ Len(result.modified) = Len(deps) + Len(devs)
        /\ \A i \in DOMAIN result.modified :
              /\ result.modified[i].isNew
              /\ result.modified[i].name =
                    (IF i <= Len(deps) THEN deps[i][1] ELSE devs[i - Len(deps)][1])

\* the entry of the working tree is absent from the committed lockfile
AddedEntry(head, entry) ==
    \A i \in DOMAIN head.packages : head.packages[i].path # entry.path

\* the entry is absent from the committed lockfile or has another version there
ChangedEntry(head, entry) ==
    \A i \in DOMAIN head.packages :
        head.packages[i].path = entry.path => head.packages[i].version # entry.version

\* the result lists exactly the entries expected, in order
ListsEntries(result, head, expected) ==
    /\ result.kind = "return"
    /\ Len(result.modified) = Len(expected)
    /\ \A i \in DOMAIN result.modified :
          /\ result.modified[i].version = expected[i].version
          /\ result.modified[i].name = extractPackageName(expected[i].path)
          /\ result.modified[i].isNew = AddedEntry(head, expected[i])

\* the result lists the versioned entries of cur that were added or changed
ListsFullDiff(result, head, cur) ==
    LET Differs(entry) == ChangedEntry(head, entry) /\ entry.version # <<>>
    IN  ListsEntries(result, head, SelectSeq(cur.packages, Differs))

C19_DifferOutcomeByPriority ==
    calls > 0 =>
        IF ~env.isGitRepository
        THEN env.current.kind = "json" =>
                 ListsDirectDependencies(diffResult, env.current.lock)
        ELSE IF ~env.hasPackageLockChanges
        THEN diffResult = [kind |-> "return", modified |-> <<>>,
                           isNewFile |-> FALSE, changedFiles |-> 0]
        ELSE IF env.head.kind = "unreadable"
        THEN env.current.kind = "json" =>
                 /\ ListsDirectDependencies(diffResult, env.current.lock)
                 /\ diffResult.isNewFile
        ELSE (env.current.kind = "json" /\ env.head.kind = "json") =>
                 /\ ListsFullDiff(diffResult, env.head.lock, env.current.lock)
                 /\ ~diffResult.isNewFile

\* a changed lockfile without committed version gave its direct dependencies
C19_Witness ==
    /\ calls > 0
    /\ env.isGitRepository
    /\ env.hasPackageLockChanges
    /\ env.head.kind = "unreadable"
    /\ env.current.kind = "json"
    /\ diffResult.kind = "return"
    /\ diffResult.isNewFile
    /\ Len(diffResult.modified) = 2

----------------------------------------------------------------------------
(* C20: for a new (un-diffable) lockfile the Differ returns exactly one     *)
(* PackageInfo per entry of the root package's dependencies (parent         *)
(* "root (dependency)") and per entry of its devDependencies (parent        *)
(* "root (devDependency)"), dependencies first, each with isNew = true and  *)
(* with any ^ or ~ range prefix removed from the version string; no         *)
(* transitive package is included.                                          *)

\* the range without its leading ^ or ~
StripPrefix(range) ==
    IF Len(range) > 0 /\ range[1] \in {"^", "~"} THEN Tail(range) ELSE range

\* the lockfile of the current call cannot be diffed: there is no repository
\* or no committed version
NewLockfile ==
    /\ calls > 0
    /\ env.current.kind = "json"
    /\ \/ ~env.isGitRepository
       \/ env.hasPackageLockChanges /\ env.head.kind = "unreadable"

C20_DirectDependenciesOfNewLockfile ==
    NewLockfile =>
        LET deps == env.current.lock.root.dependencies
            devs == env.current.lock.root.devDependencies
        IN  /\ diffResult.kind = "return"
            /\ diffResult.modified =
                  [i \in 1..(Len(deps) + Len(devs)) |->
                      IF i <= Len(deps)
                      THEN [name |-> deps[i][1], version |-> StripPrefix(deps[i][2]),
                            parent |-> <<"root (dependency)">>, isNew |-> TRUE]
                      ELSE [name |-> devs[i - Len(deps)][1],
                            version |-> StripPrefix(devs[i - Len(deps)][2]),
                            parent |-> <<"root (devDependency)">>, isNew |-> TRUE]]

----------------------------------------------------------------------------
(* C21: when both a committed and a working-tree lockfile exist,            *)
(* computePackageDiff reports an entry of the working tree (any             *)
(* installation path) exactly when its path is absent from the committed    *)
(* snapshot or its version differs from the committed one; isNew is true    *)
(* exactly when the path was absent; entries with identical version and     *)
(* entries removed from the working tree are never reported.                *)

\* validate() took the full-diff branch with two readable lockfiles
DiffedBoth ==
    /\ calls > 0
    /\ env.isGitRepository
    /\ env.hasPackageLockChanges
    /\ env.head.kind = "json"
    /\ env.current.kind = "json"

\* the paths of the committed lockfile that the working tree no longer has
RemovedPaths(head, cur) ==
    {head.packages[i].path : i \in DOMAIN head.packages}
        \ {cur.packages[i].path : i \in DOMAIN cur.packages}

\* the claim as stated: every added or changed entry is reported
C21_EveryChangedEntryReported ==
    DiffedBoth =>
        LET Differs(entry) == ChangedEntry(env.head.lock, entry) IN
        ListsEntries(diffResult, env.head.lock,
                     SelectSeq(env.current.lock.packages, Differs))

\* as the code has it: an entry is reported exactly when it carries a
\* version and is added or changed; an entry without a version is skipped
C21_VersionedChangedEntriesReported ==
    DiffedBoth =>
        LET head == env.head.lock
            cur == env.current.lock
            Reportable(entry) == entry.version # <<>> /\ ChangedEntry(head, entry)
            Kept(entry) == ~Reportable(entry)
        IN  /\ ListsEntries(diffResult, head, SelectSeq(cur.packages, Reportable))
            /\ Len(diffResult.modified) + Len(SelectSeq(cur.packages, Kept))
                  = Len(cur.packages)
            /\ \A i \in DOMAIN diffResult.modified :
                  /\ diffResult.modified[i].version # <<>>
                  /\ \A p \in RemovedPaths(head, cur) :
                        extractPackageName(p) # diffResult.modified[i].name

\* a diff with an unchanged entry, a removed one, a version-less added one
\* and one reported entry
C21_Witness ==
    /\ DiffedBoth
    /\ diffResult.kind = "return"
    /\ Len(diffResult.modified) = 1
    /\ diffResult.modified[1].isNew
    /\ RemovedPaths(env.head.lock, env.current.lock) # {}
    /\ \E i \in DOMAIN env.current.lock.packages :
          /\ env.current.lock.packages[i].version = <<>>
          /\ AddedEntry(env.head.lock, env.current.lock.packages[i])
    /\ \E i \in DOMAIN env.current.lock.packages :
          ~ChangedEntry(env.head.lock, env.current.lock.packages[i])

----------------------------------------------------------------------------
(* C22: a trusted pattern containing * matches a package name exactly when  *)
(* the name is the pattern with each * replaced by an arbitrary (possibly   *)
(* empty) string, every other pattern character matching only itself and    *)
(* the match covering the whole name; a pattern without * matches only the  *)
(* identical name.                                                          *)

\* the pattern, read as the claim reads it, matches the name
MatchesAsGlob(pattern, name) ==
    IF "*" \in Range(pattern) THEN GlobMatches(pattern, name) ELSE pattern = name

C22_PatternsMatchAsGlobs ==
    lastCall.op = "isTrustedPackage" =>
        LET trusted == lastCall.input.trustedPackages
            name == lastCall.input.packageName
        IN  lastCall.result =
                Completed(\E i \in DOMAIN trusted : MatchesAsGlob(trusted[i], name))

----------------------------------------------------------------------------
(* C23: loadConfig merges the user file over the defaults per top-level     *)
(* key: for each of registry, security and output, every field the user     *)
(* gives overrides the default and every field the user omits keeps its     *)
(* default value; minimumAgeHours and trustedPackages are replaced          *)
(* wholesale; an unreadable or malformed file makes loadConfig reject with  *)
(* an error starting with 'Failed to load config'.                          *)

Sections == {"registry", "security", "output"}

\* the user object gives the field of the section
Gives(user, section, field) ==
    IF section \in DOMAIN user THEN field \in DOMAIN user[section] ELSE FALSE

\* every field of every section is the user's if given, else the default
MergedBySection(effective, user) ==
    \A section \in Sections :
        /\ section \in DOMAIN effective
        /\ \A field \in DOMAIN createDefaultConfig[section] :
              /\ field \in DOMAIN effective[section]
              /\ effective[section][field] =
                    (IF Gives(user, section, field) THEN user[section][field]
                     ELSE createDefaultConfig[section][field])

\* every other top-level key is the user's if given, else the default
ReplacedWholesale(effective, user) ==
    \A key \in DOMAIN createDefaultConfig \ Sections :
        /\ key \in DOMAIN effective
        /\ effective[key] = (IF key \in DOMAIN user THEN user[key]
                             ELSE createDefaultConfig[key])

C23_LoadConfigMergesPerSection ==
    lastCall.op = "loadConfig" =>
        IF lastCall.input.kind = "json"
        THEN /\ lastCall.result.kind = "return"
             /\ MergedBySection(lastCall.result.value, lastCall.input.value)
             /\ ReplacedWholesale(lastCall.result.value, lastCall.input.value)
        ELSE /\ lastCall.result.kind = "throw"
             /\ StartsWith(lastCall.result.error, FailedToLoadConfig)

\* a file that gives registry.timeout only was loaded: the other registry
\* fields are the defaults
C23_Witness ==
    /\ lastCall.op = "loadConfig"
    /\ lastCall.input = ConfigJson([registry |-> [timeout |-> 10000]])
    /\ lastCall.result.kind = "return"
    /\ lastCall.result.value.registry.timeout = 10000
    /\ lastCall.result.value.registry.retries = 3
    /\ lastCall.result.value.minimumAgeHours = 24

----------------------------------------------------------------------------
(* C24: validatePackages(partialConfig) runs with an effective              *)
(* configuration that is deep-merged over the defaults: every registry,     *)
(* security and output field the caller does not supply keeps its default   *)
(* value, also when the caller supplies only some fields of a section.      *)

C24_ValidatePackagesDeepMerges ==
    lastCall.op = "validatePackages" =>
        /\ lastCall.result.kind = "return"
        /\ MergedBySection(lastCall.result.value, lastCall.input)

----------------------------------------------------------------------------
(* C25: the exit status of the host process is a function of                *)
(* result.success only: the CLI exits 0 when success is true and nonzero    *)
(* when it is false, except that with --dry-run it exits 0 regardless of    *)
(* violations; validate() itself never terminates the process, it only      *)
(* returns or throws.                                                       *)

\* the process has exited after validate() returned a result
ExitedWithResult == cli.exit # <<>> /\ outcome.kind = "resolved"

ExitFollowsSuccess ==
    ExitedWithResult =>
        IF cli.options.dryRun THEN cli.exit = <<0>>
        ELSE IF outcome.success THEN cli.exit = <<0>>
        ELSE cli.exit # <<0>>

\* the process ends only in a step of the CLI that follows a settled call
\* (or a failed load), never within a step of validate()
ValidateNeverExits ==
    cli'.exit # cli.exit =>
        /\ cli.exit = <<>>
        /\ pc = "idle"
        /\ UNCHANGED <<pc, calls, outcome, cache, reqs>>

C25_ExitStatusFollowsSuccess == []ExitFollowsSuccess /\ [][ValidateNeverExits]_vars

\* a dry run that found violations exited with 0
C25_Witness ==
    /\ ExitedWithResult
    /\ cli.options.dryRun
    /\ ~outcome.success
    /\ Len(outcome.violations) > 0
    /\ cli.exit = <<0>>

----------------------------------------------------------------------------
(* C26: when registry caching is disabled (registry.cacheEnabled = false,   *)
(* CLI option --no-cache), the Registry Client does not serve publish dates *)
(* from a cache: a repeated getPackagesPublishDates call for the same key   *)
(* issues a new network request.                                            *)

\* every npm package string of invocation k is on its list of fetches
FetchesEveryPackage(k) ==
    LET npmPackages == SelectSeq(inv[k].args, NotLocalPackage) IN
    \A i \in DOMAIN npmPackages : npmPackages[i] \in Range(inv[k].uncached)

C26_NoCacheMeansRefetch ==
    ~config.registry.cacheEnabled =>
        \A k \in DOMAIN inv : FetchesEveryPackage(k)

----------------------------------------------------------------------------
(* C27: no GitHelper operation throws when the underlying git command       *)
(* fails: executeCommand returns the empty string, isGitRepository and      *)
(* hasPackageLockChanges return false, getPackageLockFromHead returns null, *)
(* and getCurrentBranch / getLastCommitHash return 'unknown'.               *)

GitOperations ==
    {"executeCommand", "hasPackageLockChanges", "getPackageLockFromHead",
     "getCurrentBranch", "getLastCommitHash", "isGitRepository"}

\* the last call was a GitHelper operation whose git command failed
GitCommandFailed == lastCall.op \in GitOperations /\ lastCall.input.kind = "fails"

C27_GitHelperNeverThrows ==
    /\ lastCall.op \in GitOperations => lastCall.result.kind = "return"
    /\ GitCommandFailed =>
          CASE lastCall.op = "executeCommand" -> lastCall.result.value = <<>>
            [] lastCall.op = "hasPackageLockChanges" -> lastCall.result.value = FALSE
            [] lastCall.op = "isGitRepository" -> lastCall.result.value = FALSE
            [] lastCall.op = "getPackageLockFromHead" -> lastCall.result.value = <<>>
            [] lastCall.op = "getCurrentBranch" -> lastCall.result.value = Unknown
            [] lastCall.op = "getLastCommitHash" -> lastCall.result.value = Unknown

\* getCurrentBranch was called where git fails and answered 'unknown'
C27_Witness ==
    /\ GitCommandFailed
    /\ lastCall.op = "getCurrentBranch"
    /\ lastCall.result = Completed(Unknown)

----------------------------------------------------------------------------
(* C28: no result of a batch is written to the cache before every request   *)
(* of that batch, retries included, has settled; all cache writes of a      *)
(* batch happen together after the batch settles and before the first       *)
(* request of the next batch is issued.                                     *)

RequestKey(r) == toKey(r.name, r.version)

BatchesOfInvocation(k) == batchesOf(Len(inv[k].reqs), config)

\* the keys of the batches of invocation k before batch b
EarlierKeys(k, b) ==
    {RequestKey(inv[k].reqs[i]) :
        i \in {j \in DOMAIN inv[k].reqs :
                  \E n \in 1..(b - 1) : j \in Range(BatchesOfInvocation(k)[n])}}

\* while a batch is awaited, the cache holds nothing for its keys, unless an
\* earlier batch or another invocation fetched the same key
UnsettledBatchInvisible ==
    \A k \in DOMAIN inv : inv[k].st = "await" =>
        \A i \in Range(BatchesOfInvocation(k)[inv[k].batch]) :
            LET key == RequestKey(inv[k].reqs[i]) IN
            (SoleRequester(k, key) /\ key \notin EarlierKeys(k, inv[k].batch))
                => key \notin DOMAIN cache

\* a request has been issued only once every key of the batches before its
\* own is in the cache
EarlierBatchesCached ==
    \A k \in DOMAIN inv : \A b \in DOMAIN BatchesOfInvocation(k) :
        (\E i \in Range(BatchesOfInvocation(k)[b]) : inv[k].reqs[i].st # "pending")
            => EarlierKeys(k, b) \subseteq DOMAIN cache

ChangedKeys ==
    {key \in DOMAIN cache' : IF key \in DOMAIN cache THEN cache'[key] # cache[key]
                                                     ELSE TRUE}

\* in this step the awaited batch of invocation k settles
SettlesBatch(k) ==
    /\ inv[k].st = "await"
    /\ inv'[k].batch = inv[k].batch + 1 \/ inv'[k].st = "returned"
    /\ \E i \in Range(BatchesOfInvocation(k)[inv[k].batch]) : inv[k].reqs[i].st # "done"
    /\ \A i \in Range(BatchesOfInvocation(k)[inv[k].batch]) : inv'[k].reqs[i].st = "done"

\* the cache changes only in a step that settles a batch: the step writes
\* every key of that batch and no other, and the requests of the next batch
\* were not issued before it
WritesWhenBatchSettles ==
    cache' # cache =>
        \E k \in DOMAIN inv :
            LET bs == BatchesOfInvocation(k)
                keys == {RequestKey(inv[k].reqs[i]) : i \in Range(bs[inv[k].batch])}
            IN  /\ SettlesBatch(k)
                /\ ChangedKeys \subseteq keys
                /\ keys \subseteq DOMAIN cache'
                /\ inv[k].batch < Len(bs) =>
                      \A i \in Range(bs[inv[k].batch + 1]) : inv[k].reqs[i].st = "pending"

C28_BatchResultsWrittenTogether ==
    /\ [](UnsettledBatchInvisible /\ EarlierBatchesCached)
    /\ [][WritesWhenBatchSettles]_vars

\* a request of a batch of two resolved to a date while the other one is
\* still retried: the cache has no entry for the resolved key
C28_Witness ==
    \E k \in DOMAIN inv :
        /\ inv[k].st = "await"
        /\ \E i, j \in Range(BatchesOfInvocation(k)[inv[k].batch]) :
              /\ inv[k].reqs[i].st = "done"
              /\ inv[k].reqs[i].date # <<>>
              /\ inv[k].reqs[j].st = "sleep"
              /\ RequestKey(inv[k].reqs[i]) \notin DOMAIN cache

----------------------------------------------------------------------------
(* C29: within one getPackagesPublishDates call at most one fetch (attempt  *)
(* sequence) is started per distinct name@version key, even when the input  *)
(* list contains the same key more than once (for example the same package  *)
(* version installed at two lockfile paths).                                 *)

\* the fetches the current call has started
StartedFetches == {i \in DOMAIN reqs : reqs[i].st # "pending"}

C29_OneFetchPerKey ==
    \A i, j \in StartedFetches :
        i # j => RequestKey(reqs[i]) # RequestKey(reqs[j])

----------------------------------------------------------------------------
(* C30: the promise of getPackagesPublishDates settles for every finite     *)
(* input list and every integer value of registry.concurrency, 0 and        *)
(* negative values included, provided each individual request eventually    *)
(* settles: batch construction always terminates.                           *)

Settled(k) == inv[k].st \in {"returned", "rejected"}

\* the call waits for a response or a timer whose arrival advances it
AwaitsAnEvent(k) ==
    /\ inv[k].st = "await"
    /\ \E i \in DOMAIN inv[k].reqs : inv[k].reqs[i].st \in {"out", "sleep"}

\* every call has settled or will be advanced by a response or a timer
C30_EveryCallCanSettle ==
    \A k \in DOMAIN inv : Settled(k) \/ AwaitsAnEvent(k)

----------------------------------------------------------------------------
(* C31: with registry.retries configured as 0, getPackagesPublishDates      *)
(* still resolves without rejecting for any list of uncached packages:      *)
(* each such package is treated as unknown (absent from the returned map)   *)
(* and validate() does not throw.                                           *)

\* the last validate() call reached the Registry Client with retries = 0
\* and has settled
SettledWithoutAttempts ==
    /\ config.registry.retries = 0
    /\ pc = "idle"
    /\ calls > 0
    /\ clientArgs # <<>>

C31_ZeroRetriesResolves ==
    SettledWithoutAttempts =>
        /\ outcome.kind = "resolved"
        /\ \A i \in DOMAIN uncachedAt : uncachedAt[i] \notin DOMAIN returned

----------------------------------------------------------------------------
(* C32: every entry of result.violations carries a reported ageInHours      *)
(* that is strictly below the configured minimumAgeHours.                   *)

\* ageInHours is held in tenths of an hour
C32_ReportedAgeBelowMinimum ==
    Returned =>
        \A j \in DOMAIN outcome.violations :
            outcome.violations[j].ageInHours < config.minimumAgeHours * 10

----------------------------------------------------------------------------
(* C33: for every requested package string p that is fetched, the cache     *)
(* entry is written under exactly the key p, including a request whose      *)
(* version is the literal 'latest' and a request string that carries no     *)
(* @version suffix; hence a p that resolved successfully is found by the    *)
(* lookup that follows the fetch and appears in the returned map.           *)

\* invocation k has returned and its fetch of uncached[i] resolved to a date
ResolvedFetch(k, i) ==
    /\ inv[k].st = "returned"
    /\ i \in DOMAIN inv[k].reqs
    /\ inv[k].reqs[i].st = "done"
    /\ inv[k].reqs[i].date # NoDate

C33_CachedUnderRequestedString ==
    \A k \in DOMAIN inv : \A i \in DOMAIN inv[k].uncached :
        LET p == inv[k].uncached[i] IN
        (ResolvedFetch(k, i) /\ SoleRequester(k, RequestKey(inv[k].reqs[i])))
            => /\ p \in DOMAIN cache
               /\ cache[p].publishDate = inv[k].reqs[i].date
               /\ p \in DOMAIN inv[k].result

----------------------------------------------------------------------------
(* C34: for a modified package that has no recorded dependency-graph edge,  *)
(* the parent is inferred from the nesting of its installation path: a      *)
(* package installed at node_modules/P/node_modules/X gets parent P (at any *)
(* nesting depth the parent is the immediately enclosing package), and only *)
(* a package installed at top level gets parent "root".                     *)

RECURSIVE LastMarker(_, _)
\* the position of the last "node_modules" of path[1..n], 0 if there is none
LastMarker(path, n) ==
    IF n = 0 THEN 0
    ELSE IF path[n] = "node_modules" THEN n
    ELSE LastMarker(path, n - 1)

\* the segment that follows the last node_modules/ marker
AfterLastMarker(path) ==
    SubSeq(path, LastMarker(path, Len(path)) + 2, Len(path))

\* the path of the package that encloses the one installed at path
EnclosingPath(path) == SubSeq(path, 1, LastMarker(path, Len(path)) - 2)

\* the immediately enclosing package, "root" for a top-level installation
EnclosingPackage(path) ==
    IF LastMarker(path, Len(path)) <= 1 THEN Root
    ELSE IF LastMarker(EnclosingPath(path), Len(EnclosingPath(path))) = 0
    THEN EnclosingPath(path)
    ELSE AfterLastMarker(EnclosingPath(path))

\* the Differ was called on its own and compared two readable lockfiles
DifferCompared ==
    /\ lastCall.op = "getModifiedPackages"
    /\ lastCall.input.isGitRepository
    /\ lastCall.input.hasPackageLockChanges
    /\ lastCall.input.head.kind = "json"
    /\ lastCall.input.current.kind = "json"
    /\ lastCall.result.kind = "return"

\* the entries of the working tree the result reports, in order
ReportedEntries ==
    LET head == lastCall.input.head.lock
        Reportable(entry) == entry.version # <<>> /\ ChangedEntry(head, entry)
    IN  SelectSeq(lastCall.input.current.lock.packages, Reportable)

\* the names that some dependencies object of the lockfile lists
EdgeNames(lock) ==
    {lock.root.dependencies[i][1] : i \in DOMAIN lock.root.dependencies}
    \cup {lock.root.devDependencies[i][1] : i \in DOMAIN lock.root.devDependencies}
    \cup UNION {Range(lock.packages[i].dependencies) : i \in DOMAIN lock.packages}

C34_ParentInferredFromNesting ==
    DifferCompared =>
        /\ Len(lastCall.result.modified) = Len(ReportedEntries)
        /\ \A i \in DOMAIN lastCall.result.modified :
              lastCall.result.modified[i].name
                    \notin EdgeNames(lastCall.input.current.lock)
                => lastCall.result.modified[i].parent
                       = EnclosingPackage(ReportedEntries[i].path)

----------------------------------------------------------------------------
(* C35: the name-to-parent map built per Differ invocation assigns to each  *)
(* dependency name the root label if the name is a direct or dev dependency *)
(* of the root package, otherwise the name of the first package, in         *)
(* package-map iteration order, whose dependency list contains it; a        *)
(* transitive edge never overwrites an entry that already exists.           *)

DirectNames(lock) ==
    {lock.root.dependencies[i][1] : i \in DOMAIN lock.root.dependencies}

DevNames(lock) ==
    {lock.root.devDependencies[i][1] : i \in DOMAIN lock.root.devDependencies}

\* the packages that list name in their dependencies, by position
Dependents(lock, name) ==
    {i \in DOMAIN lock.packages : name \in Range(lock.packages[i].dependencies)}

FirstDependent(lock, name) ==
    CHOOSE i \in Dependents(lock, name) : \A j \in Dependents(lock, name) : i <= j

ExpectedParent(lock, name) ==
    IF name \in DevNames(lock) THEN RootDevDependency
    ELSE IF name \in DirectNames(lock) THEN RootDependency
    ELSE AfterLastMarker(lock.packages[FirstDependent(lock, name)].path)

C35_FirstParentWins ==
    (lastCall.op = "getModifiedPackages" /\ lastCall.input.current.kind = "json") =>
        LET lock == lastCall.input.current.lock
            parentMap == buildParentMap(lock)
        IN  /\ DOMAIN parentMap = EdgeNames(lock)
            /\ \A name \in EdgeNames(lock) : parentMap[name] = ExpectedParent(lock, name)
            /\ DifferCompared =>
                  \A i \in DOMAIN lastCall.result.modified :
                      LET pkg == lastCall.result.modified[i] IN
                      pkg.name \in EdgeNames(lock) =>
                          pkg.parent = ExpectedParent(lock, pkg.name)

\* c is listed by a and then by b and reported with parent a; b is listed
\* by a and is a devDependency of the root, and reported with the root label
C35_Witness ==
    /\ DifferCompared
    /\ \E i, j \in DOMAIN lastCall.result.modified :
          /\ lastCall.result.modified[i].name = C
          /\ lastCall.result.modified[i].parent = A
          /\ Cardinality(Dependents(lastCall.input.current.lock, C)) = 2
          /\ lastCall.result.modified[j].name = B
          /\ lastCall.result.modified[j].parent = RootDevDependency
          /\ Dependents(lastCall.input.current.lock, B) # {}

----------------------------------------------------------------------------
(* C39: for every installation path in the lockfile, the resolved package   *)
(* name is the path segment that follows the last node_modules/ nesting     *)
(* marker (scope included, e.g. @scope/name), whatever precedes the first   *)
(* marker.                                                                  *)

C39_NameFollowsLastMarker ==
    DifferCompared =>
        /\ Len(lastCall.result.modified) = Len(ReportedEntries)
        /\ \A i \in DOMAIN lastCall.result.modified :
              lastCall.result.modified[i].name = AfterLastMarker(ReportedEntries[i].path)

----------------------------------------------------------------------------
(* C38: when the CLI is run with --config <file> and without --min-age or   *)
(* --concurrency, the effective minimumAgeHours and registry.concurrency    *)
(* used for validation are the values loaded from the config file; a CLI    *)
(* option overrides the file only when it is given on the command line.     *)

ConfigurationResolved ==
    /\ lastCall.op = "runValidation"
    /\ lastCall.result.kind = "return"
    /\ cli.argv.config # <<>>

C38_FileValuesUnlessOptionGiven ==
    ConfigurationResolved =>
        LET file == loadConfig(cli.argv.config[1]).value
            effective == lastCall.result.value
        IN  /\ effective.minimumAgeHours =
                  IF cli.argv.minAge = <<>> THEN file.minimumAgeHours
                  ELSE parseInt(cli.argv.minAge[1])
            /\ effective.registry.concurrency =
                  IF cli.argv.concurrency = <<>> THEN file.registry.concurrency
                  ELSE parseInt(cli.argv.concurrency[1])

----------------------------------------------------------------------------
(* C36: each validate() call passes through the phases diff, filter-trusted,*)
(* fetch-ages, evaluate, result in that order without returning to an       *)
(* earlier phase: the Differ is invoked exactly once, the Registry Client   *)
(* at most once and only after the Differ has returned, and the call ends   *)
(* in exactly one of a returned ValidationResult or a rethrown error.       *)

\* what each phase leaves behind agrees with the phases before it
PhasesInOrder ==
    /\ diffResult = IF calls = 0 THEN Returns(<<>>, FALSE, 0) ELSE getModifiedPackages(env)
    /\ Len(clientArgs) <= 1
    /\ clientArgs # <<>> =>
          /\ calls > 0
          /\ diffResult.kind = "return"
          /\ modified = diffResult.modified
          /\ toValidate = packagesToValidateOf(config, patterns, modified)
          /\ clientArgs[1] = packageStringsOf(toValidate)
    /\ pc = "fetching" => clientArgs # <<>>
    /\ calls = 0 => outcome.kind = "none"
    /\ (pc = "idle" /\ calls > 0) =>
          /\ outcome.kind \in {"resolved", "rejected"}
          /\ diffResult.kind = "throw" => (outcome.kind = "rejected" /\ clientArgs = <<>>)

\* within one call nothing of an earlier phase is redone, and a settled call
\* stays settled until the next call starts
NoPhaseRedone ==
    /\ calls' # calls => (calls' = calls + 1 /\ pc = "idle")
    /\ calls' = calls =>
          /\ diffResult' = diffResult
          /\ modified' = modified
          /\ toValidate' = toValidate
          /\ clientArgs' = clientArgs
          /\ pc = "idle" => (pc' = "idle" /\ outcome' = outcome)
          /\ pc = "fetching" => (pc' = "fetching" /\ outcome' = outcome) \/ pc' = "idle"

C36_PhasesInOrder == []PhasesInOrder /\ [][NoPhaseRedone]_vars

\* a second call that went through every phase: candidates found, some left
\* after the filter, dates fetched over the network, a result returned
C36_Witness ==
    /\ calls = 2
    /\ pc = "idle"
    /\ Len(clientArgs) = 1
    /\ Len(toValidate) < Len(modified)
    /\ netCount # <<>>
    /\ DOMAIN returned # {}
    /\ outcome.kind = "resolved"
    /\ outcome.summary.executionTimeMs > 0

----------------------------------------------------------------------------
(* C37: a cached registry lookup is served only while its age is below      *)
(* cacheTtlMinutes (for cacheTtlMinutes > 0): a request for a key whose     *)
(* entry is older than the TTL is treated as uncached and triggers a new    *)
(* network fetch, the expiry being checked at lookup time.                  *)

TtlMs == config.registry.cacheTtlMinutes * 60 * 1000

\* the time since the entry of key was written
EntryAge(key) == now - cache[key].timestamp

\* validate() calls getPackagesPublishDates in this step
LooksUp == calls' = calls + 1 /\ clientArgs' # <<>> /\ TtlMs > 0

\* the requested keys that hold a publish date in the cache at the lookup
DatedAtLookup ==
    {key \in Range(clientArgs'[1]) \cap DOMAIN cache : cache[key].publishDate # NoDate}

ServedFromCache(key) == key \notin Range(uncachedAt')

\* the key is handed to fetchUncachedPackages, which makes a request of it
FetchedAnew(key) ==
    /\ key \in Range(uncachedAt')
    /\ pc' = "fetching"
    /\ \E i \in DOMAIN reqs' : toKey(reqs'[i].name, reqs'[i].version) = key

\* as stated: served only at an age below the TTL
C37_ServedOnlyBelowTtl ==
    [][LooksUp =>
         \A key \in DatedAtLookup :
             /\ ServedFromCache(key) => EntryAge(key) < TtlMs
             /\ EntryAge(key) > TtlMs => FetchedAnew(key)]_vars

\* amended: an entry is served up to and including the instant at which its
\* age equals the TTL, and fetched anew once it is older
C37_ServedUntilOlderThanTtl ==
    [][LooksUp =>
         \A key \in DatedAtLookup :
             /\ ServedFromCache(key) <=> EntryAge(key) <= TtlMs
             /\ ~ServedFromCache(key) => FetchedAnew(key)]_vars

\* the second call is fetching a key over the network while the cache still
\* holds the dated entry of the first call, older than the TTL
C37_Witness ==
    /\ calls = 2
    /\ pc = "fetching"
    /\ \E key \in Range(uncachedAt) \cap DOMAIN cache :
          /\ cache[key].publishDate # NoDate
          /\ now - cache[key].timestamp > TtlMs
          /\ key \in DOMAIN callCount

----------------------------------------------------------------------------
(* C40: the map of compiled wildcard patterns is built once in the          *)
(* PackageValidator constructor with exactly one entry per configured       *)
(* trusted pattern that contains *, keyed by the pattern string; validate() *)
(* and isTrustedPackage only read it and never add, remove or recompile an  *)
(* entry, across any number of sequential validate() calls.                 *)

WildcardPatterns ==
    {config.trustedPackages[i] : i \in {j \in DOMAIN config.trustedPackages :
                                            "*" \in Range(config.trustedPackages[j])}}

OneEntryPerWildcardPattern ==
    /\ DOMAIN patterns = WildcardPatterns
    /\ \A p \in DOMAIN patterns : patterns[p] = ReplaceAll(p, "*", <<".", "*">>)

C40_PatternCacheBuiltOnce ==
    []OneEntryPerWildcardPattern /\ [][patterns' = patterns /\ config' = config]_vars

\* two calls have filtered candidates through the map: a candidate trusted
\* by a wildcard pattern was dropped, and a pattern without * has no entry
C40_Witness ==
    /\ calls = 2
    /\ pc = "idle"
    /\ outcome.kind = "resolved"
    /\ \E i \in DOMAIN modified : \E p \in DOMAIN patterns :
          /\ RegexMatches(patterns[p], modified[i].name)
          /\ modified[i].name # p
          /\ \A j \in DOMAIN toValidate : toValidate[j].name # modified[i].name
    /\ \E i \in DOMAIN config.trustedPackages :
          config.trustedPackages[i] \notin DOMAIN patterns

====
